---- MODULE Spec2Model ----
(***************************************************************************)
(* Model of checksum_archive_tools: manifests of MD5 checksums kept in a   *)
(* directory tree (md5files/checksums.py, md5files/md5file_utils.py,       *)
(* utils/files.py, md5lines/*.py).                                         *)
(*                                                                         *)
(* Representation.  A Python str is a sequence of tokens; a token is an    *)
(* atomic piece of text ("/", ".", " -> ", a directory or file name, a     *)
(* checksum).  No token of the model is a substring of another one at a    *)
(* place where the code searches, so the substring operations of the code  *)
(* (in, split, rsplit, replace) are the same operations on token           *)
(* sequences.  A text file is a sequence of lines; every line of a file is *)
(* newline-terminated and is held without its "\n".  All tokens are ASCII, *)
(* on which unicodedata.normalize("NFC", .) and replace("\\", "/") change  *)
(* nothing.                                                                *)
(***************************************************************************)
EXTENDS Integers, Sequences, FiniteSets, TLC

VARIABLES
    folder_arg, \* the spelling of the folder's path given to the calls
    files,      \* regular files of the tree: physical path -> MD5 of content, or NoFile
    mf,         \* manifest text files of the tree: physical path -> sequence of lines
    pc,         \* "idle", or the operation that has resolved its save location
    cur,        \* arguments and locals of the operation in progress
    last,       \* the last completed call: its arguments, what it returned or raised,
                \* and whether it repeated the call completed just before it
    nops,       \* number of calls made so far
    nenv,       \* number of file changes made by the user so far
    pin,        \* input of the pure function under test (pure specifications)
    pout        \* its result

vars == <<folder_arg, files, mf, pc, cur, last, nops, nenv, pin, pout>>

(***************************************************************************)
(* Bounds of the model.                                                    *)
(***************************************************************************)
MaxOps == 2
MaxEnv == 1
MaxPairs == 3
MaxNames == 4
MaxLines == 3
MaxEntries == 3
MaxWritten == 3
MaxPathLen == 3
MaxLineLen == 3
MaxSourcePairs == 2
MaxSourceLines == 2

None == "None"
NoFile == "NoFile"
\* An exception raised by a function that returns a str is the value ValueErr or
\* IndexErr; a function with a larger result returns a record whose field err
\* names the exception, None when it returned.
ValueErr == <<"#ValueError">>
IndexErr == <<"#IndexError">>
IsErr(x) == x \in {ValueErr, IndexErr}
ErrName(x) == IF x = ValueErr THEN "ValueError" ELSE "IndexError"

(***************************************************************************)
(* Sequence helpers.                                                       *)
(***************************************************************************)
Last(s) == s[Len(s)]

DropLast(s) == IF s = <<>> THEN <<>> ELSE SubSeq(s, 1, Len(s) - 1)

SetMin(S) == CHOOSE i \in S : \A j \in S : i <= j

SetMax(S) == CHOOSE i \in S : \A j \in S : j <= i

Occurrences(s, pat) ==
    {i \in 1..(Len(s) - Len(pat) + 1) : SubSeq(s, i, i + Len(pat) - 1) = pat}

\* str.find + 1: position of the first occurrence of pat in s, 0 when there is none
Find(s, pat) == IF Occurrences(s, pat) = {} THEN 0 ELSE SetMin(Occurrences(s, pat))

\* str.rfind + 1
RFind(s, pat) == IF Occurrences(s, pat) = {} THEN 0 ELSE SetMax(Occurrences(s, pat))

\* pat in s
Contains(s, pat) == Occurrences(s, pat) # {}

\* s.split(sep, 1): a sequence of one or two strings
SplitOnce(s, sep) ==
    LET i == Find(s, sep)
    IN  IF i = 0 THEN <<s>>
        ELSE <<SubSeq(s, 1, i - 1), SubSeq(s, i + Len(sep), Len(s))>>

\* s.rsplit(sep, 1)
RSplitOnce(s, sep) ==
    LET i == RFind(s, sep)
    IN  IF i = 0 THEN <<s>>
        ELSE <<SubSeq(s, 1, i - 1), SubSeq(s, i + Len(sep), Len(s))>>

\* s.replace(old, new), old not empty: every occurrence, left to right
RECURSIVE Replace(_, _, _)
Replace(s, old, new) ==
    IF Len(s) < Len(old) THEN s
    ELSE IF SubSeq(s, 1, Len(old)) = old
         THEN new \o Replace(SubSeq(s, Len(old) + 1, Len(s)), old, new)
         ELSE <<Head(s)>> \o Replace(Tail(s), old, new)

\* s.rstrip("/")
RECURSIVE RStripSlash(_)
RStripSlash(s) ==
    IF s # <<>> /\ Last(s) = "/" THEN RStripSlash(DropLast(s)) ELSE s

\* utils.index_if_possible: 1-based index of the first occurrence, 0 for the code's -1
index_if_possible(array, item) ==
    IF \E i \in 1..Len(array) : array[i] = item
    THEN SetMin({i \in 1..Len(array) : array[i] = item})
    ELSE 0

InSeq(x, s) == \E i \in 1..Len(s) : s[i] = x

SeqToSet(s) == {s[i] : i \in 1..Len(s)}

(***************************************************************************)
(* Paths.                                                                  *)
(***************************************************************************)
\* os.path.basename
basename(p) == SubSeq(p, RFind(p, <<"/">>) + 1, Len(p))

\* os.path.split: (head without its trailing slashes, tail)
path_split(p) ==
    LET i    == RFind(p, <<"/">>)
        head == SubSeq(p, 1, i)
    IN  <<IF RStripSlash(head) = <<>> THEN head ELSE RStripSlash(head),
          SubSeq(p, i + 1, Len(p))>>

\* os.path.dirname
dirname(p) == path_split(p)[1]

\* utils.clean_filepath
clean_filepath(filepath, allow_trailing_slash) ==
    IF allow_trailing_slash THEN filepath ELSE RStripSlash(filepath)

\* os.path.join(a, b) for a that ends with "/" or is empty
os_join(a, b) ==
    IF b # <<>> /\ Head(b) = "/" THEN b
    ELSE IF a = <<>> \/ Last(a) = "/" THEN a \o b
    ELSE a \o <<"/">> \o b

\* utils.concat_filepaths
concat_filepaths(first_path, second_path) ==
    LET first  == IF Last(first_path) # "/" THEN first_path \o <<"/">> ELSE first_path
        second0 == clean_filepath(second_path, FALSE)
        second == IF second0 # <<>> /\ Head(second0) = "/" THEN Tail(second0)
                  ELSE IF Len(second0) >= 2 /\ SubSeq(second0, 1, 2) = <<".", "/">>
                       THEN SubSeq(second0, 3, Len(second0))
                       ELSE second0
    IN  os_join(first, second)

\* utils.make_relative_path; IndexErr for the IndexError of split_path[1]
make_relative_path(path, root_dir) ==
    IF Contains(path, root_dir)
    THEN LET p   == <<"/">> \o path \o <<"/">>
             sep == Replace(<<"/">> \o root_dir \o <<"/">>, <<"/", "/">>, <<"/">>)
             sp  == SplitOnce(p, sep)
         IN  IF Len(sp) < 2 THEN IndexErr
             ELSE IF <<".", "/">> \o DropLast(sp[2]) = <<".", "/">> THEN <<".">>
                  ELSE <<".", "/">> \o DropLast(sp[2])
    ELSE IF path = <<".", "/">> THEN <<".">> ELSE path

(***************************************************************************)
(* The tree.  The folder that is checksummed is the directory /tf/w/tf;    *)
(* the process runs in /tf/w, so the strings "tf", "tf/" and "/tf/w/tf"    *)
(* all name it.  A physical path is the sequence of names below it.        *)
(***************************************************************************)
Cwd == <<"tf", "w">>

RootAbs == <<"tf", "w", "tf">>

FolderPaths == {<<"tf">>, <<"tf", "/">>, <<"/", "tf", "/", "w", "/", "tf">>}

Dirs == {<<>>, <<"a">>}

\* walk order of the directories (os.walk is top-down), and their names
WalkOrder == <<<<>>, <<"a">>>>

Slots == {<<"f">>, <<"g">>, <<"a", "f">>}

Hashes == {"c1", "c2"}

Outside == <<"#outside">>

Segs(p) == SelectSeq(p, LAMBDA t : t # "/" /\ t # ".")

AbsSegs(p) == IF p # <<>> /\ Head(p) = "/" THEN Segs(p) ELSE Cwd \o Segs(p)

\* the physical path a path string names, Outside when it is not below the folder
Phys(p) ==
    LET a == AbsSegs(p)
    IN  IF Len(a) >= Len(RootAbs) /\ SubSeq(a, 1, Len(RootAbs)) = RootAbs
        THEN SubSeq(a, Len(RootAbs) + 1, Len(a))
        ELSE Outside

IsDir(ph) == ph \in Dirs

IsRegular(fl, ph) == ph \in Slots /\ fl[ph] # NoFile

\* os.path.exists
path_exists(fl, m, p) ==
    IsDir(Phys(p)) \/ IsRegular(fl, Phys(p)) \/ Phys(p) \in DOMAIN m

FsPut(m, ph, content) ==
    [x \in (DOMAIN m) \cup {ph} |-> IF x = ph THEN content ELSE m[x]]

FsRemove(m, ph) == [x \in (DOMAIN m) \ {ph} |-> m[x]]

\* os.rename
FsRename(m, from, to) == FsPut(FsRemove(m, from), to, m[from])

(***************************************************************************)
(* Names and headers of the manifests (md5file_utils.py:30-34).            *)
(***************************************************************************)
nested_checksum_filename == ".nested_checksum.txt"

main_checksum_filename == ".main_checksum.txt"

nested_checksum_header == <<";", " nested_checksum">>

main_checksum_header == <<";", " main_checksum">>

CanonName(nested) == IF nested THEN nested_checksum_filename ELSE main_checksum_filename

StemNested(nested) == ".nested_checksum"

Stem(nested) == IF nested THEN ".nested_checksum" ELSE ".main_checksum"

\* the k-th name tried for the renamed file: _old, _old (1), _old (2), ...
OldName(nested, k) ==
    IF k = 0 THEN Stem(nested) \o "_old" \o ".txt"
    ELSE Stem(nested) \o "_old (" \o ToString(k) \o ")" \o ".txt"

\* md5file_utils.is_checksum_filename with checksum_type None
is_checksum_filename(s) == s = main_checksum_filename \/ s = nested_checksum_filename

(***************************************************************************)
(* Checksums.  A checksum token stands for 32 hexadecimal characters;      *)
(* "C1" is "c1" in upper case.  The MD5 of a regular file is the token of  *)
(* its content; the MD5 of a manifest file is a token made of its text,    *)
(* different for different texts.                                          *)
(***************************************************************************)
HexTokens == {"c1", "c2", "C1", "C2"}

Upper(t) == CASE t = "c1" -> "C1" [] t = "c2" -> "C2" [] OTHER -> t

\* the tokens that are not 32 hexadecimal characters: "zz" is a malformed
\* checksum, the others are the punctuation and the names of the alphabet
NonHexTokens ==
    {"zz", "/", ".", " ", "*", " -> ", ";", " main_checksum", " nested_checksum",
     "tf", "w", "a", "f", "g", "x", "e-acute", "e+acute", "->"}
        \cup {OldName(n, k) : n \in BOOLEAN, k \in 0..9}
        \cup {main_checksum_filename, nested_checksum_filename}

\* re.match("^[A-Fa-f0-9]{32}$", s)
IsHex32(s) == Len(s) = 1 /\ s[1] \notin NonHexTokens

TextMd5(lines) == "md5" \o ToString(lines)

\* md5file_utils.md5 of the file at a physical path
md5(fl, m, ph) == IF ph \in DOMAIN m THEN TextMd5(m[ph]) ELSE fl[ph]

(***************************************************************************)
(* Checksum lines (md5lines/*.py).  A function that raises returns the     *)
(* exception as its value.                                                 *)
(***************************************************************************)
Arrow == <<" -> ">>

\* unicodedata.normalize("NFC", s): the token "e+acute" is the letter e followed
\* by a combining acute accent, "e-acute" the one composed character
normalize_nfc(s) == [i \in DOMAIN s |-> IF s[i] = "e+acute" THEN "e-acute" ELSE s[i]]

\* MD5Line.clean_md5line: the "\n" is not held, "\\" is not in the alphabet
clean_md5line(md5_line) == md5_line

\* the outcomes of validate_md5line
Valid == "valid"
Invalid == "invalid"
ValidateRaises == "IndexError"

\* CustomMD5Line.validate_md5line; rsplit(" -> ", 1)[1] raises IndexError
custom_validate_md5line(md5_line) ==
    LET sp == RSplitOnce(clean_md5line(md5_line), Arrow)
    IN  IF Len(sp) < 2 THEN ValidateRaises
        ELSE IF IsHex32(sp[2]) THEN Valid ELSE Invalid

\* CustomMD5Line.extract_checksum
custom_extract_checksum(md5_line) ==
    LET v == custom_validate_md5line(md5_line)
    IN  IF v = ValidateRaises THEN IndexErr
        ELSE IF v = Invalid THEN ValueErr
        ELSE RSplitOnce(clean_md5line(md5_line), Arrow)[2]

\* CustomMD5Line.extract_filepath with reroot_dir None
custom_extract_filepath(md5_line) ==
    LET v == custom_validate_md5line(md5_line)
    IN  IF v = ValidateRaises THEN IndexErr
        ELSE IF v = Invalid THEN ValueErr
        ELSE normalize_nfc(RSplitOnce(clean_md5line(md5_line), Arrow)[1])

\* CustomMD5Line.get_custom_md5line_string
get_custom_md5line_string(filepath, checksum) == filepath \o Arrow \o checksum

\* CustomMD5Line.get_short_custom_md5line_string
get_short_custom_md5line_string(filepath, checksum) ==
    basename(filepath) \o Arrow \o checksum

TeraSep == <<" ", "*">>

\* TeracopyMD5Line.validate_md5line
teracopy_validate_md5line(md5_line) ==
    IF IsHex32(SplitOnce(md5_line, TeraSep)[1]) THEN Valid ELSE Invalid

\* TeracopyMD5Line.extract_checksum
teracopy_extract_checksum(md5_line) ==
    IF teracopy_validate_md5line(md5_line) = Invalid THEN ValueErr
    ELSE SplitOnce(clean_md5line(md5_line), TeraSep)[1]

\* TeracopyMD5Line.extract_filepath with reroot_dir None; split(" *", 1)[1]
teracopy_extract_filepath(md5_line) ==
    IF teracopy_validate_md5line(md5_line) = Invalid THEN ValueErr
    ELSE IF Len(SplitOnce(clean_md5line(md5_line), TeraSep)) < 2 THEN IndexErr
    ELSE normalize_nfc(SplitOnce(clean_md5line(md5_line), TeraSep)[2])

TeracopyWithoutStar(filepath, checksum) == checksum \o <<" ">> \o filepath

\* TeracopyMD5Line.get_teracopy_md5line_string
get_teracopy_md5line_string(filepath, checksum) == checksum \o TeraSep \o filepath

PlainSep == <<" ", ".", "/">>

WsTokens == {" ", " -> "}

\* md5_line.split()[0]: the first whitespace-separated word; IndexError on a blank line
RECURSIVE first_word(_)
first_word(md5_line) ==
    IF md5_line = <<>> THEN IndexErr
    ELSE IF Head(md5_line) = " " THEN first_word(Tail(md5_line))
    ELSE IF Head(md5_line) = " -> " THEN <<"->">>
    ELSE LET ws == {i \in 1..Len(md5_line) : md5_line[i] \in WsTokens}
         IN  IF ws = {} THEN md5_line ELSE SubSeq(md5_line, 1, SetMin(ws) - 1)

\* MD5Line.validate_md5line
md5_validate_md5line(md5_line) ==
    IF first_word(md5_line) = IndexErr THEN ValidateRaises
    ELSE IF IsHex32(first_word(md5_line)) THEN Valid ELSE Invalid

\* MD5Line.extract_checksum: split(" ./")[0]
md5_extract_checksum(md5_line) ==
    LET v == md5_validate_md5line(md5_line)
    IN  IF v = ValidateRaises THEN IndexErr
        ELSE IF v = Invalid THEN ValueErr
        ELSE SplitOnce(clean_md5line(md5_line), PlainSep)[1]

\* MD5Line.extract_filepath with reroot_dir None: "./" + split(" ./", 1)[1]
md5_extract_filepath(md5_line) ==
    LET v == md5_validate_md5line(md5_line)
    IN  IF v = ValidateRaises THEN IndexErr
        ELSE IF v = Invalid THEN ValueErr
        ELSE IF Len(SplitOnce(clean_md5line(md5_line), PlainSep)) < 2 THEN IndexErr
        ELSE normalize_nfc(<<".", "/">> \o SplitOnce(clean_md5line(md5_line), PlainSep)[2])

\* MD5Line.get_md5line_string
get_md5line_string(filepath, checksum) == checksum \o <<" ">> \o filepath

Formats == {"md5", "custom", "custom_nested", "teracopy"}

SwapFields(filepath, checksum, format_type) ==
    CASE format_type = "md5" -> get_md5line_string(checksum, filepath)
      [] format_type = "teracopy" -> get_teracopy_md5line_string(checksum, filepath)
      [] OTHER -> get_custom_md5line_string(checksum, filepath)

\* the full-form line of a format: get_md5line_string,
\* get_teracopy_md5line_string or get_custom_md5line_string
get_line_string(filepath, checksum, format_type) ==
    CASE format_type = "md5" -> get_md5line_string(filepath, checksum)
      [] format_type = "teracopy" -> get_teracopy_md5line_string(filepath, checksum)
      [] OTHER -> get_custom_md5line_string(filepath, checksum)

\* validate_md5line of the class of the format
validate_md5line(md5_line, format_type) ==
    CASE format_type = "md5" -> md5_validate_md5line(md5_line)
      [] format_type = "teracopy" -> teracopy_validate_md5line(md5_line)
      [] OTHER -> custom_validate_md5line(md5_line)

extract_filepath(md5_line, format_type) ==
    CASE format_type = "md5" -> md5_extract_filepath(md5_line)
      [] format_type = "teracopy" -> teracopy_extract_filepath(md5_line)
      [] OTHER -> custom_extract_filepath(md5_line)

extract_checksum(md5_line, format_type) ==
    CASE format_type = "md5" -> md5_extract_checksum(md5_line)
      [] format_type = "teracopy" -> teracopy_extract_checksum(md5_line)
      [] OTHER -> custom_extract_checksum(md5_line)

\* md5file_utils.extract_from_md5line, lines 166-176: the pair of the two
\* extractions; the filepath is extracted first, so its exception comes first
ExtractedPair(fp, cs) ==
    IF IsErr(fp) THEN [err |-> ErrName(fp), filepath |-> <<>>, checksum |-> <<>>]
    ELSE IF IsErr(cs) THEN [err |-> ErrName(cs), filepath |-> <<>>, checksum |-> <<>>]
    ELSE [err |-> None, filepath |-> fp, checksum |-> cs]

\* md5file_utils.extract_from_md5line
extract_from_md5line(md5_line, format_type) ==
    ExtractedPair(extract_filepath(md5_line, format_type),
                  extract_checksum(md5_line, format_type))

(***************************************************************************)
(* Manifest files (md5file_utils.py, utils/files.py).                      *)
(***************************************************************************)
HeaderAccepted(lines, nested) == TRUE

\* md5file_utils.check_custom_md5file_header, on the lines of the file
check_custom_md5file_header(lines, nested) ==
    (IF lines = <<>> THEN <<>> ELSE lines[1]) =
        (IF nested THEN nested_checksum_header ELSE main_checksum_header)

NoExtract(e) == [err |-> e, filepaths |-> <<>>, checksums |-> <<>>]

\* md5file_utils.extract_from_md5file, lines 239-240: the two appends of one
\* line; an exception of the line ends the loop
AppendExtracted(r, rest) ==
    IF r.err # None THEN [err |-> r.err, filepaths |-> <<>>, checksums |-> <<>>]
    ELSE IF rest.err # None THEN rest
    ELSE [err |-> None,
          filepaths |-> <<r.filepath>> \o rest.filepaths,
          checksums |-> <<r.checksum>> \o rest.checksums]

\* md5file_utils.extract_from_md5file, lines 231-242: the loop over the lines
RECURSIVE extract_lines(_, _)
extract_lines(md5_lines, format_type) ==
    IF md5_lines = <<>> THEN NoExtract(None)
    ELSE IF Head(md5_lines) = <<>> \/ Head(Head(md5_lines)) = ";"
    THEN extract_lines(Tail(md5_lines), format_type)
    ELSE AppendExtracted(extract_from_md5line(Head(md5_lines), format_type),
                         extract_lines(Tail(md5_lines), format_type))

\* md5file_utils.extract_from_md5file, on the lines of the file
extract_from_md5file(md5_lines, format_type) ==
    IF format_type = "custom" /\ ~check_custom_md5file_header(md5_lines, FALSE)
    THEN NoExtract("ValueError")
    ELSE IF format_type = "custom_nested" /\ ~check_custom_md5file_header(md5_lines, TRUE)
    THEN NoExtract("ValueError")
    ELSE extract_lines(md5_lines, format_type)

\* md5file_utils.revert_md5file_to_teracopy_format, lines 279-285: the lines
\* written for the entries extracted from the custom file
reverted_lines(e) ==
    << <<";", " MD5 checksums created by TeraCopy">>, <<";", " teracopy.com">>, <<>> >>
        \o [i \in 1..Len(e.filepaths) |->
                get_teracopy_md5line_string(e.filepaths[i], e.checksums[i])]

\* md5file_utils.revert_md5file_to_teracopy_format, on the lines of the custom
\* file: the lines of the file written, or the exception of line 275
revert_md5file_to_teracopy_format(lines) ==
    IF extract_from_md5file(lines, "custom").err # None
    THEN [err |-> extract_from_md5file(lines, "custom").err, lines |-> <<>>]
    ELSE [err |-> None, lines |-> reverted_lines(extract_from_md5file(lines, "custom"))]

\* extract_from_md5file of a file of the tree: open() raises when it is absent
extract_from_tree(m, ph, format_type) ==
    IF ph \notin DOMAIN m THEN NoExtract("FileNotFoundError")
    ELSE extract_from_md5file(m[ph], format_type)

FirstOldName(fl, m, folder, nested) == 0

\* md5file_utils.get_checksum_save_location, lines 106-110: the number k of the
\* first name among _old, _old (1), _old (2), ... that does not exist
FreeOldName(fl, m, folder, nested) ==
    SetMin({k \in 0..Cardinality(DOMAIN m) :
               ~path_exists(fl, m, folder \o <<"/", OldName(nested, k)>>)})

\* md5file_utils.get_checksum_save_location: the save location, the files after
\* the call, and the name the existing file was renamed to (<<>>: not renamed)
get_checksum_save_location(fl, m, folder0, updating_only, nested) ==
    LET folder        == clean_filepath(folder0, FALSE)
        save_location == folder \o <<"/", CanonName(nested)>>
        old_save_location ==
            folder \o <<"/", OldName(nested, FreeOldName(fl, m, folder, nested))>>
    IN  IF ~path_exists(fl, m, save_location)
        THEN [err |-> None, m |-> m, save_location |-> save_location, old |-> <<>>]
        ELSE IF ~check_custom_md5file_header(m[Phys(save_location)], nested)
        THEN [err |-> "ValueError", m |-> m, save_location |-> save_location, old |-> <<>>]
        ELSE IF updating_only
        THEN [err |-> None, m |-> m, save_location |-> save_location, old |-> <<>>]
        ELSE [err |-> None,
              m |-> FsRename(m, Phys(save_location), Phys(old_save_location)),
              save_location |-> save_location,
              old |-> old_save_location]

AppendAllLines(existing_lines, lines) == existing_lines \o lines

AppendNothing(existing_lines, lines) == existing_lines

\* utils.append_unique_lines_to_file, lines 165-171: the content after appending
AppendUnique(existing_lines, lines) ==
    existing_lines \o SelectSeq(lines, LAMBDA line : ~InSeq(line, existing_lines))

ParentExists(ph) == ph # Outside /\ ph # <<>> /\ DropLast(ph) \in Dirs

\* utils.append_unique_lines_to_file: open(filepath, "w+") raises in a missing directory
append_unique_lines_to_file(fl, m, filepath, lines) ==
    IF ~path_exists(fl, m, filepath)
    THEN IF ParentExists(Phys(filepath))
         THEN [err |-> None, m |-> FsPut(m, Phys(filepath), lines)]
         ELSE [err |-> "FileNotFoundError", m |-> m]
    ELSE [err |-> None,
          m |-> FsPut(m, Phys(filepath), AppendUnique(m[Phys(filepath)], lines))]

(***************************************************************************)
(* separate_by_dirs and separate_by_uniqueness (md5file_utils.py).         *)
(* Python compares a list with a str as unequal; the values compared at    *)
(* lines 422 and 426 are tagged with their Python type to model that.      *)
(***************************************************************************)
PyList(v) == [list |-> v]

PyStr(v) == [str |-> v]

\* line 422: y = index_if_possible(dirpath_filenames, filename)
FilenameIndex(dirpath_filenames, x, filename) ==
    index_if_possible([i \in 1..Len(dirpath_filenames) |-> PyList(dirpath_filenames[i])],
                      PyStr(filename))

Min2(a, b) == IF a <= b THEN a ELSE b

RECURSIVE sbd_loop(_, _, _, _)
sbd_loop(filepaths, checksums, i, acc) ==
    IF i > Min2(Len(filepaths), Len(checksums)) \/ acc.err # None THEN acc
    ELSE LET line_dirpath == path_split(filepaths[i])[1]
             filename     == path_split(filepaths[i])[2]
             checksum     == checksums[i]
             x == index_if_possible(acc.dirpaths, line_dirpath)
             y == FilenameIndex(acc.filenames, x, filename)
         IN  IF x = 0
             THEN sbd_loop(filepaths, checksums, i + 1,
                      [acc EXCEPT !.dirpaths  = Append(@, line_dirpath),
                                  !.filenames = Append(@, <<filename>>),
                                  !.checksums = Append(@, <<checksum>>)])
             ELSE IF y = 0
             THEN sbd_loop(filepaths, checksums, i + 1,
                      [acc EXCEPT !.filenames[x] = Append(@, filename),
                                  !.checksums[x] = Append(@, checksum)])
             ELSE IF PyStr(checksum) # PyList(acc.checksums[y])
             THEN [acc EXCEPT !.err = "ValueError"]
             ELSE sbd_loop(filepaths, checksums, i + 1, acc)

NoDirs == [err |-> None, dirpaths |-> <<>>, filenames |-> <<>>, checksums |-> <<>>]

\* md5file_utils.separate_by_dirs
separate_by_dirs(filepaths, checksums) == sbd_loop(filepaths, checksums, 1, NoDirs)

PopNothing(s, idx) == s

\* list.pop(idx), the list that is left
PopAt(s, idx) == SubSeq(s, 1, idx - 1) \o SubSeq(s, idx + 1, Len(s))

RECURSIVE sbu_loop(_, _, _, _)
sbu_loop(filenames, checksums, i, acc) ==
    IF i > Min2(Len(filenames), Len(checksums)) THEN acc
    ELSE LET filename == filenames[i]
             checksum == checksums[i]
             dupe_idx == index_if_possible(acc.non_unique_filenames, filename)
             idx      == index_if_possible(acc.unique_filenames, filename)
         IN  IF dupe_idx = 0 /\ idx = 0
             THEN sbu_loop(filenames, checksums, i + 1,
                      [acc EXCEPT !.unique_filenames = Append(@, filename),
                                  !.unique_checksums = Append(@, checksum)])
             ELSE IF dupe_idx = 0
             THEN sbu_loop(filenames, checksums, i + 1,
                      [unique_filenames |-> PopAt(acc.unique_filenames, idx),
                       unique_checksums |-> PopAt(acc.unique_checksums, idx),
                       non_unique_filenames |->
                           acc.non_unique_filenames \o <<acc.unique_filenames[idx], filename>>,
                       non_unique_checksums |->
                           acc.non_unique_checksums \o <<acc.unique_checksums[idx], checksum>>])
             ELSE sbu_loop(filenames, checksums, i + 1,
                      [acc EXCEPT !.non_unique_filenames = Append(@, filename),
                                  !.non_unique_checksums = Append(@, checksum)])

NoUnsorted == [unique_filenames |-> <<>>, unique_checksums |-> <<>>,
               non_unique_filenames |-> <<>>, non_unique_checksums |-> <<>>]

\* md5file_utils.separate_by_uniqueness
separate_by_uniqueness(filenames, checksums) == sbu_loop(filenames, checksums, 1, NoUnsorted)

(***************************************************************************)
(* The walk of the tree (os.walk, natsorted).                              *)
(***************************************************************************)
\* the names of the files directly in the physical directory d
ListDir(fl, m, d) ==
    {q[Len(q)] : q \in {r \in Slots : fl[r] # NoFile /\ DropLast(r) = d}}
        \cup {q[Len(q)] : q \in {r \in DOMAIN m : DropLast(r) = d}}

\* the place of a name in natsort's order: ".main_checksum.txt" < ".main_checksum_old (1).txt"
\* < ... < ".main_checksum_old.txt" < ".nested_checksum ..." likewise < "f" < "g"
NatRank(name) ==
    CASE name = main_checksum_filename -> 0
      [] name = OldName(FALSE, 0) -> 99
      [] name = nested_checksum_filename -> 100
      [] name = OldName(TRUE, 0) -> 199
      [] name = "f" -> 200
      [] name = "g" -> 201
      [] OTHER -> IF \E k \in 1..98 : name = OldName(FALSE, k)
                  THEN CHOOSE k \in 1..98 : name = OldName(FALSE, k)
                  ELSE 100 + (CHOOSE k \in 1..98 : name = OldName(TRUE, k))

RECURSIVE natsorted(_)
natsorted(names) ==
    IF names = {} THEN <<>>
    ELSE LET first == CHOOSE n \in names : \A o \in names : NatRank(n) <= NatRank(o)
         IN  <<first>> \o natsorted(names \ {first})

\* the string os.walk yields as root for the physical directory d
RECURSIVE WalkRoot(_, _)
WalkRoot(folder_path, d) ==
    IF d = <<>> THEN folder_path
    ELSE os_join(WalkRoot(folder_path, DropLast(d)), <<Last(d)>>)

(***************************************************************************)
(* generate_checksums (checksums.py:43-269).                               *)
(***************************************************************************)
\* checksums._get_dirpaths_group, line 245, on what was extracted from the file
SeparatedDirs(e) ==
    IF e.err # None THEN [NoDirs EXCEPT !.err = e.err]
    ELSE separate_by_dirs(e.filepaths, e.checksums)

\* checksums._get_dirpaths_group
get_dirpaths_group(fl, m, save_location) ==
    IF path_exists(fl, m, save_location)
    THEN SeparatedDirs(extract_from_tree(m, Phys(save_location), "custom"))
    ELSE NoDirs

Basenames(filepaths) == [i \in 1..Len(filepaths) |-> basename(filepaths[i])]

\* checksums._get_unsorted_group, lines 267-269, on what was extracted from the file
SeparatedUnsorted(e) ==
    IF e.err # None THEN [err |-> e.err, group |-> NoUnsorted]
    ELSE [err |-> None,
          group |-> separate_by_uniqueness(Basenames(e.filepaths), e.checksums)]

IgnoreUnsorted(unsorted) == [err |-> None, group |-> NoUnsorted]

\* checksums._get_unsorted_group; unsorted is [given, format, lines]
get_unsorted_group(unsorted) ==
    IF ~unsorted.given THEN [err |-> None, group |-> NoUnsorted]
    ELSE SeparatedUnsorted(extract_from_md5file(unsorted.lines, unsorted.format))

DupeAcceptsAll(group, file, checksum) == TRUE

\* checksums.py:207-212: the fresh checksum is one of those listed for the name
DupeAccepts(group, file, checksum) ==
    \E idx \in 1..Len(group.non_unique_checksums) :
        /\ group.non_unique_checksums[idx] = checksum
        /\ group.non_unique_filenames[idx] = file

\* checksums.py:189-225, the loop over the sorted files of one directory
RECURSIVE subdir_loop(_, _, _, _, _, _, _, _, _, _)
subdir_loop(fl, m, sorted, i, root, root_filtered, nested, group, existing, ignore) ==
    IF i > Len(sorted) THEN [lines |-> <<>>, failed |-> <<>>]
    ELSE LET file == <<sorted[i]>>
             rest == subdir_loop(fl, m, sorted, i + 1, root, root_filtered,
                                 nested, group, existing, ignore)
             fresh == <<md5(fl, m, Phys(root \o <<"/">> \o file))>>
             line(checksum) ==
                 get_custom_md5line_string(concat_filepaths(root_filtered, file), checksum)
         IN  IF InSeq(file, ignore) \/ is_checksum_filename(sorted[i]) THEN rest
             ELSE IF existing.given /\ InSeq(file, existing.names) THEN rest
             ELSE IF InSeq(file, nested.filepaths)
             THEN [rest EXCEPT !.lines =
                      <<line(nested.checksums[index_if_possible(nested.filepaths, file)])>> \o @]
             ELSE IF InSeq(file, group.unique_filenames)
             THEN [rest EXCEPT !.lines =
                      <<line(group.unique_checksums[
                                 index_if_possible(group.unique_filenames, file)])>> \o @]
             ELSE IF InSeq(file, group.non_unique_filenames)
             THEN IF DupeAccepts(group, file, fresh)
                  THEN [rest EXCEPT !.lines = <<line(fresh)>> \o @]
                  ELSE [rest EXCEPT !.failed = <<<<file, root_filtered>>>> \o @]
             ELSE [rest EXCEPT !.lines = <<line(fresh)>> \o @]

\* checksums._generate_checksums_subdir, lines 186-227, given the nested
\* manifest of the directory
subdir_lines(fl, m, names, root, root_filtered, nested, group, existing, ignore) ==
    IF nested.err # None THEN [err |-> nested.err, lines |-> <<>>, failed |-> <<>>]
    ELSE [err |-> None] @@
         subdir_loop(fl, m, natsorted(names), 1, root, root_filtered,
                     nested, group, existing, ignore)

\* checksums._generate_checksums_subdir
generate_checksums_subdir(fl, m, names, root, root_filtered, group, existing, ignore) ==
    subdir_lines(fl, m, names, root, root_filtered,
                 IF nested_checksum_filename \in names
                 THEN extract_from_tree(
                          m, Phys(concat_filepaths(root, <<nested_checksum_filename>>)),
                          "custom_nested")
                 ELSE NoExtract(None),
                 group, existing, ignore)

\* checksums.py:113-119: the filenames already recorded for the directory
ExistingFilenames(dirs, dirpaths_idx) ==
    IF dirpaths_idx # 0
    THEN [given |-> TRUE, names |-> dirs.filenames[dirpaths_idx]]
    ELSE [given |-> FALSE, names |-> <<>>]

\* checksums.py:130-131: the lines and failures of one directory join those of
\* the directories after it; an exception ends the walk
WalkJoin(part, rest) ==
    IF part.err # None THEN part
    ELSE IF rest.err # None THEN rest
    ELSE [err |-> None,
          lines |-> part.lines \o rest.lines,
          failed |-> part.failed \o rest.failed]

RECURSIVE walk_loop(_, _, _, _, _, _, _)

\* checksums.py:107-129, one directory of the walk
walk_dir(fl, m, i, folder_path, dirs, group, ignore, names, root, root_filtered) ==
    IF names = {} THEN walk_loop(fl, m, i + 1, folder_path, dirs, group, ignore)
    ELSE IF IsErr(root_filtered)
    THEN [err |-> ErrName(root_filtered), lines |-> <<>>, failed |-> <<>>]
    ELSE WalkJoin(
             generate_checksums_subdir(
                 fl, m, names, root, root_filtered, group,
                 ExistingFilenames(dirs, index_if_possible(dirs.dirpaths, root_filtered)),
                 ignore),
             walk_loop(fl, m, i + 1, folder_path, dirs, group, ignore))

\* checksums.py:106-129, the loop over the directories of the walk
walk_loop(fl, m, i, folder_path, dirs, group, ignore) ==
    IF i > Len(WalkOrder) THEN [err |-> None, lines |-> <<>>, failed |-> <<>>]
    ELSE walk_dir(fl, m, i, folder_path, dirs, group, ignore,
                  ListDir(fl, m, WalkOrder[i]),
                  WalkRoot(folder_path, WalkOrder[i]),
                  make_relative_path(WalkRoot(folder_path, WalkOrder[i]),
                                     basename(folder_path)))

\* checksums.py:131-135: the lines are written and the failures returned
generate_write(fl, m, save_location, w) ==
    IF w.err # None THEN [err |-> w.err, m |-> m, failed |-> <<>>]
    ELSE [failed |-> w.failed] @@
         append_unique_lines_to_file(fl, m, save_location,
                                     <<main_checksum_header>> \o w.lines)

\* checksums.py:89-129: the recorded and the unsorted checksums, then the walk
generate_walk(fl, m, args, save_location, dirs, uns) ==
    IF dirs.err # None THEN [err |-> dirs.err, m |-> m, failed |-> <<>>]
    ELSE IF uns.err # None THEN [err |-> uns.err, m |-> m, failed |-> <<>>]
    ELSE generate_write(fl, m, save_location,
                        walk_loop(fl, m, 1, args.folder_path, dirs, uns.group,
                                  args.files_to_ignore))

\* checksums.generate_checksums after line 85: the rest of the call, given the
\* save location; args is [folder_path, updating_only, unsorted, files_to_ignore]
generate_rest(fl, m, args, save_location) ==
    generate_walk(fl, m, args, save_location,
                  get_dirpaths_group(fl, m, save_location),
                  get_unsorted_group(args.unsorted))

\* checksums.generate_checksums, given what line 85 returned
generate_from(fl, args, sl) ==
    IF sl.err # None THEN [err |-> sl.err, m |-> sl.m, failed |-> <<>>]
    ELSE generate_rest(fl, sl.m, args, sl.save_location)

\* checksums.generate_checksums, the whole call
generate_checksums(fl, m, args) ==
    generate_from(fl, args,
                  get_checksum_save_location(fl, m, args.folder_path,
                                             args.updating_only, FALSE))

(***************************************************************************)
(* nest_checksums (checksums.py:272-320).                                  *)
(***************************************************************************)
\* checksums.py:299-314: the directories of the manifest and the lines of each
RECURSIVE nest_group(_, _, _, _)
nest_group(filepaths, checksums, i, acc) ==
    IF i > Len(filepaths) THEN acc
    ELSE LET line_dirpath == dirname(filepaths[i])
             shortened_formatted_line ==
                 get_short_custom_md5line_string(filepaths[i], checksums[i])
             idx == index_if_possible(acc.unique_dirpaths, line_dirpath)
         IN  nest_group(filepaths, checksums, i + 1,
                 IF idx = 0
                 THEN [unique_dirpaths |-> Append(acc.unique_dirpaths, line_dirpath),
                       file_contents |-> Append(acc.file_contents,
                           <<nested_checksum_header, shortened_formatted_line>>)]
                 ELSE IF InSeq(shortened_formatted_line, acc.file_contents[idx]) THEN acc
                 ELSE [acc EXCEPT !.file_contents[idx] = Append(@, shortened_formatted_line)])

RECURSIVE nest_write(_, _, _, _, _, _)

\* checksums.py:320: after the lines of one nested manifest were written
nest_written(fl, m, root_folder, updating_only, grp, i, wr) ==
    IF wr.err # None THEN [err |-> wr.err, m |-> m]
    ELSE nest_write(fl, wr.m, root_folder, updating_only, grp, i + 1)

\* checksums.py:317-320: one nested manifest, given its save location
nest_located(fl, m, root_folder, updating_only, grp, i, sl) ==
    IF sl.err # None THEN [err |-> sl.err, m |-> m]
    ELSE nest_written(fl, sl.m, root_folder, updating_only, grp, i,
                      append_unique_lines_to_file(fl, sl.m, sl.save_location,
                                                  grp.file_contents[i]))

\* checksums.py:316-320: one nested manifest after the other; an exception ends
\* the call and leaves what was written before it
nest_write(fl, m, root_folder, updating_only, grp, i) ==
    IF i > Len(grp.unique_dirpaths) THEN [err |-> None, m |-> m]
    ELSE nest_located(fl, m, root_folder, updating_only, grp, i,
                      get_checksum_save_location(
                          fl, m, concat_filepaths(root_folder, grp.unique_dirpaths[i]),
                          updating_only, TRUE))

\* checksums.py:292-320, on what was extracted from the main manifest (line 292)
nest_lines(fl, m, root_folder, updating_only, e) ==
    IF e.err # None THEN [err |-> e.err, m |-> m]
    ELSE nest_write(fl, m, root_folder, updating_only,
                    nest_group(e.filepaths, e.checksums, 1,
                               [unique_dirpaths |-> <<>>, file_contents |-> <<>>]),
                    1)

\* checksums.py:291-320, given the location of the main manifest
nest_main(fl, m, root_folder, updating_only, main) ==
    IF main.err # None THEN [err |-> main.err, m |-> m]
    ELSE nest_lines(fl, m, root_folder, updating_only,
                    extract_from_tree(m, Phys(main.save_location), "custom"))

\* checksums.nest_checksums
nest_checksums(fl, m, root_folder, updating_only) ==
    nest_main(fl, m, root_folder, updating_only,
              get_checksum_save_location(fl, m, root_folder, TRUE, FALSE))

(***************************************************************************)
(* delete_nested_checksum_files (checksums.py:323-349).  send2trash moves  *)
(* the file out of the tree.                                               *)
(***************************************************************************)
\* checksums.py:346-349: open() raises when the path built at line 345 names no file
delete_at(m, nested_checksum_filepath) ==
    IF Phys(nested_checksum_filepath) \notin DOMAIN m
    THEN [err |-> "FileNotFoundError", m |-> m]
    ELSE IF check_custom_md5file_header(m[Phys(nested_checksum_filepath)], TRUE)
    THEN [err |-> None, m |-> FsRemove(m, Phys(nested_checksum_filepath))]
    ELSE [err |-> None, m |-> m]

\* checksums.py:344-349, the directory d of the walk
delete_dir(m, root_folder, d) ==
    IF d \o <<nested_checksum_filename>> \notin DOMAIN m THEN [err |-> None, m |-> m]
    ELSE delete_at(m, concat_filepaths(WalkRoot(root_folder, d),
                                       <<nested_checksum_filename>>))

\* checksums.py:343-349, the loop over the directories of the walk
RECURSIVE delete_walk(_, _, _)
delete_walk(r, root_folder, i) ==
    IF r.err # None \/ i > Len(WalkOrder) THEN r
    ELSE delete_walk(delete_dir(r.m, root_folder, WalkOrder[i]), root_folder, i + 1)

\* checksums.delete_nested_checksum_files
delete_nested_checksum_files(m, root_folder) ==
    delete_walk([err |-> None, m |-> m], root_folder, 1)

(***************************************************************************)
(* verify_checksums (checksums.py:352-439).  The function returns nothing; *)
(* its lists passed, failed and new_files are the result recorded here.    *)
(***************************************************************************)
NoVerdict == [err |-> None, found |-> TRUE, passed |-> <<>>, failed |-> <<>>,
              new_files |-> <<>>]

\* checksums.py:412-439, the loop over the sorted files of one directory
RECURSIVE verify_files(_, _, _, _, _, _, _, _)
verify_files(fl, m, sorted, i, root, root_filtered, checksummed_filepaths, saved_checksums) ==
    IF i > Len(sorted) THEN NoVerdict
    ELSE LET file == <<sorted[i]>>
             relative_filepath == root_filtered \o <<"/">> \o file
             rest == verify_files(fl, m, sorted, i + 1, root, root_filtered,
                                  checksummed_filepaths, saved_checksums)
             checksum == md5(fl, m, Phys(root \o <<"/">> \o file))
             saved == saved_checksums[
                          index_if_possible(checksummed_filepaths, relative_filepath)]
         IN  IF is_checksum_filename(sorted[i]) THEN rest
             ELSE IF ~InSeq(relative_filepath, checksummed_filepaths)
             THEN [rest EXCEPT !.new_files = <<relative_filepath>> \o @]
             ELSE IF Upper(checksum) # Upper(saved[1])
             THEN [rest EXCEPT !.failed = <<relative_filepath>> \o @]
             ELSE [rest EXCEPT !.passed = <<relative_filepath>> \o @]

\* root.replace(folder_path, "./").replace("//", "/")
RootFiltered(root, folder_path) ==
    Replace(Replace(root, folder_path, <<".", "/">>), <<"/", "/">>, <<"/">>)

\* checksums.py:432-439: the verdicts of one directory join those of the
\* directories after it
VerifyJoin(here, rest) ==
    IF rest.err # None THEN rest
    ELSE [NoVerdict EXCEPT !.passed = here.passed \o rest.passed,
                           !.failed = here.failed \o rest.failed,
                           !.new_files = here.new_files \o rest.new_files]

\* checksums.py:412-439: the files of one directory against the checksums src
verify_against(fl, m, names, root, root_filtered, src, rest) ==
    VerifyJoin(verify_files(fl, m, natsorted(names), 1, root, root_filtered,
                            src.filepaths, src.checksums),
               rest)

\* checksums.py:406-410: the filenames of the nested manifest become filepaths
NestedSource(root_filtered, e) ==
    [filepaths |-> [k \in 1..Len(e.filepaths) |->
                       root_filtered \o <<"/">> \o e.filepaths[k]],
     checksums |-> e.checksums]

\* checksums.py:407-410, on what was extracted from the nested manifest
verify_nested_lines(fl, m, names, root, root_filtered, e, rest) ==
    IF e.err # None THEN [NoVerdict EXCEPT !.err = e.err]
    ELSE verify_against(fl, m, names, root, root_filtered,
                        NestedSource(root_filtered, e), rest)

\* checksums.py:398-410: a directory without a nested manifest is skipped
verify_nested_dir(fl, m, names, root, root_filtered, sl, rest) ==
    IF sl.err # None THEN [NoVerdict EXCEPT !.err = sl.err]
    ELSE IF ~path_exists(fl, m, sl.save_location) THEN rest
    ELSE verify_nested_lines(
             fl, m, names, root, root_filtered,
             extract_from_tree(m, Phys(sl.save_location), "custom_nested"), rest)

\* checksums.py:391-439, one directory of the walk
verify_dir(fl, m, use_nested_checksums, main, names, root, root_filtered, rest) ==
    IF names = {} THEN rest
    ELSE IF use_nested_checksums
    THEN verify_nested_dir(fl, m, names, root, root_filtered,
                           get_checksum_save_location(fl, m, root, TRUE, TRUE), rest)
    ELSE verify_against(fl, m, names, root, root_filtered, main, rest)

\* checksums.py:387-439, the loop over the directories of the walk
RECURSIVE verify_walk(_, _, _, _, _, _, _)
verify_walk(fl, m, i, folder_path, use_nested_checksums, follow_nested_dirs, main) ==
    IF i > Len(WalkOrder) \/ (~follow_nested_dirs /\ i > 1) THEN NoVerdict
    ELSE verify_dir(fl, m, use_nested_checksums, main,
                    ListDir(fl, m, WalkOrder[i]),
                    WalkRoot(folder_path, WalkOrder[i]),
                    RootFiltered(WalkRoot(folder_path, WalkOrder[i]), folder_path),
                    verify_walk(fl, m, i + 1, folder_path, use_nested_checksums,
                                follow_nested_dirs, main))

\* checksums.py:379-381, on what was extracted from the main manifest
verify_main_lines(fl, m, folder_path, follow_nested_dirs, e) ==
    IF e.err # None THEN [NoVerdict EXCEPT !.err = e.err]
    ELSE verify_walk(fl, m, 1, folder_path, FALSE, follow_nested_dirs, e)

\* checksums.py:371-381; found is FALSE when the function returns at line 378
verify_main(fl, m, folder_path, follow_nested_dirs, sl) ==
    IF sl.err # None THEN [NoVerdict EXCEPT !.err = sl.err]
    ELSE IF ~path_exists(fl, m, sl.save_location) THEN [NoVerdict EXCEPT !.found = FALSE]
    ELSE verify_main_lines(fl, m, folder_path, follow_nested_dirs,
                           extract_from_tree(m, Phys(sl.save_location), "custom"))

\* checksums.verify_checksums
verify_checksums(fl, m, folder_path, use_nested_checksums, follow_nested_dirs) ==
    IF use_nested_checksums
    THEN verify_walk(fl, m, 1, folder_path, TRUE, follow_nested_dirs, NoExtract(None))
    ELSE verify_main(fl, m, folder_path, follow_nested_dirs,
                     get_checksum_save_location(fl, m, folder_path, TRUE, FALSE))

(***************************************************************************)
(* remove_missing_checksums (checksums.py:442-479) and remove_checksums    *)
(* (md5file_utils.py:288-386).                                             *)
(***************************************************************************)
\* md5file_utils.py:302-310: the recorded filepaths that do not exist
MissingFiles(fl, m, folder_path, e) ==
    [err |-> e.err,
     missing_files |->
         SelectSeq(e.filepaths,
                   LAMBDA filepath :
                       ~path_exists(fl, m, concat_filepaths(folder_path, filepath)))]

MissingNothing(fl, m, folder_path, md5_filepath) == [err |-> None, missing_files |-> <<>>]

\* md5file_utils.finding_missing_files
finding_missing_files(fl, m, folder_path, md5_filepath) ==
    MissingFiles(fl, m, folder_path, extract_from_tree(m, Phys(md5_filepath), "custom"))

\* list.remove(x): the list without the first occurrence of x
RemoveFirst(lines, x) == PopAt(lines, index_if_possible(lines, x))

\* md5file_utils.py:363-379: one line is removed or kept; removing is "y"
\* without confirmation and the answer to the prompt otherwise
RemoveLine(line, e, rest, filepaths, removing) ==
    IF e.err # None
    THEN [err |-> e.err, lines_to_write |-> <<>>, removed_lines |-> <<>>]
    ELSE IF rest.err # None THEN rest
    ELSE IF InSeq(e.filepath, filepaths) /\ removing = "y"
    THEN [rest EXCEPT !.removed_lines = <<line>> \o @]
    ELSE [rest EXCEPT !.lines_to_write = <<line>> \o @]

\* md5file_utils.py:362-379: the lines kept and the lines removed; answers[i]
\* is the answer given to the prompt for line i
RECURSIVE remove_loop(_, _, _, _, _)
remove_loop(lines, i, filepaths, require_confirmation, answers) ==
    IF i > Len(lines) THEN [err |-> None, lines_to_write |-> <<>>, removed_lines |-> <<>>]
    ELSE RemoveLine(lines[i],
                    extract_from_md5line(lines[i], "custom"),
                    remove_loop(lines, i + 1, filepaths, require_confirmation, answers),
                    filepaths,
                    IF ~require_confirmation THEN "y" ELSE answers[i])

\* md5file_utils.py:350-379, on the lines read from the file
remove_checksums_lines(lines, filepaths, require_confirmation, answers) ==
    IF ~InSeq(main_checksum_header, lines)
    THEN [err |-> "ValueError", lines_to_write |-> <<>>, removed_lines |-> <<>>]
    ELSE [remove_loop(RemoveFirst(lines, main_checksum_header), 1, filepaths,
                      require_confirmation, answers)
              EXCEPT !.lines_to_write = <<main_checksum_header>> \o @]

\* md5file_utils.remove_checksums up to line 379: what is to be written
remove_checksums_plan(m, md5_filepath, filepaths, require_confirmation, answers) ==
    remove_checksums_lines(m[Phys(md5_filepath)], filepaths, require_confirmation, answers)

\* md5file_utils.py:382: os.path.split(clean_filepath(md5_filepath))[0]
remove_save_path(md5_filepath) == path_split(clean_filepath(md5_filepath, FALSE))[1]

(***************************************************************************)
(* The state machine.  A call of generate_checksums or of                  *)
(* remove_missing_checksums takes two steps: the first ends after          *)
(* get_checksum_save_location (the rename), the second writes the          *)
(* manifest.  The process can be killed between the two.                   *)
(***************************************************************************)
NoUnsortedSource == [given |-> FALSE, format |-> "md5", lines |-> <<>>]

\* the sources given as unsorted_md5_filepath: none, a teracopy file with one
\* name listed once, an md5 file with one name listed twice
UnsortedInputs ==
    { NoUnsortedSource,
      [given |-> TRUE, format |-> "teracopy",
       lines |-> << <<"C2", " ", "*", "x", "/", "g">> >>],
      [given |-> TRUE, format |-> "md5",
       lines |-> << <<"c2", " ", ".", "/", "f">>,
                    <<"c2", " ", ".", "/", "a", "/", "f">> >>] }

IgnoreInputs == { <<>>, << <<"g">> >> }

Idle == [op |-> "none"]

InitFiles == (<<"f">> :> "c1") @@ (<<"g">> :> "c2") @@ (<<"a", "f">> :> "c1")

\* the manifest a first generate_checksums(folder_path, False) leaves in the tree
Generated(folder_path) ==
    generate_rest(InitFiles, <<>>,
                  [folder_path |-> folder_path, updating_only |-> FALSE,
                   unsorted |-> NoUnsortedSource, files_to_ignore |-> <<>>],
                  get_checksum_save_location(InitFiles, <<>>, folder_path, FALSE,
                                             FALSE).save_location).m

\* every call is given the same spelling of the folder's path; the tree is
\* fresh or was checksummed once before
Init ==
    /\ folder_arg \in FolderPaths
    /\ files = InitFiles
    /\ mf \in {<<>>, Generated(folder_arg)}
    /\ pc = "idle"
    /\ cur = Idle
    /\ last = Idle
    /\ nops = 0
    /\ nenv = 0
    /\ pin = <<>>
    /\ pout = Idle

\* generate_checksums, line 85: the call ends with the exception, or goes on
\* with the save location
GenerateLocated(args, sl) ==
    IF sl.err # None
    THEN /\ last' = [op |-> "generate", args |-> args, err |-> sl.err]
         /\ UNCHANGED <<mf, pc, cur>>
    ELSE /\ mf' = sl.m
         /\ pc' = "generate"
         /\ cur' = [op |-> "generate", args |-> args,
                    save_location |-> sl.save_location, old |-> sl.old]
         /\ UNCHANGED last

\* generate_checksums, line 85
GenerateBegin(updating_only, unsorted, files_to_ignore) ==
    /\ pc = "idle"
    /\ nops < MaxOps
    /\ nops' = nops + 1
    /\ GenerateLocated([folder_path |-> folder_arg, updating_only |-> updating_only,
                        unsorted |-> unsorted, files_to_ignore |-> files_to_ignore],
                       get_checksum_save_location(files, mf, folder_arg, updating_only,
                                                  FALSE))
    /\ UNCHANGED <<folder_arg, files, nenv, pin, pout>>

\* generate_checksums, line 135: the call is over
GenerateWritten(r) ==
    /\ mf' = r.m
    /\ last' = [op |-> "generate", args |-> cur.args, err |-> r.err,
                failed |-> r.failed, old |-> cur.old,
                again |-> (last.op = "generate" /\ last.args = cur.args)]

\* generate_checksums, lines 89-135
GenerateFinish ==
    /\ pc = "generate"
    /\ GenerateWritten(generate_rest(files, mf, cur.args, cur.save_location))
    /\ pc' = "idle"
    /\ cur' = Idle
    /\ UNCHANGED <<folder_arg, files, nops, nenv, pin, pout>>

\* nest_checksums, line 320: the call is over
NestWritten(updating_only, r) ==
    /\ mf' = r.m
    /\ last' = [op |-> "nest",
                args |-> [root_folder |-> folder_arg, updating_only |-> updating_only],
                err |-> r.err]

\* nest_checksums
NestChecksums(updating_only) ==
    /\ pc = "idle"
    /\ nops < MaxOps
    /\ nops' = nops + 1
    /\ NestWritten(updating_only, nest_checksums(files, mf, folder_arg, updating_only))
    /\ UNCHANGED <<folder_arg, files, pc, cur, nenv, pin, pout>>

\* verify_checksums, line 439: the lists the call has built
Verdict(use_nested_checksums, follow_nested_dirs, r) ==
    last' = [op |-> "verify",
             args |-> [folder_path |-> folder_arg,
                       use_nested_checksums |-> use_nested_checksums,
                       follow_nested_dirs |-> follow_nested_dirs],
             err |-> r.err, found |-> r.found, passed |-> r.passed,
             failed |-> r.failed, new_files |-> r.new_files]

\* verify_checksums
VerifyChecksums(use_nested_checksums, follow_nested_dirs) ==
    /\ pc = "idle"
    /\ nops < MaxOps
    /\ nops' = nops + 1
    /\ Verdict(use_nested_checksums, follow_nested_dirs,
               verify_checksums(files, mf, folder_arg, use_nested_checksums,
                                follow_nested_dirs))
    /\ UNCHANGED <<folder_arg, files, mf, pc, cur, nenv, pin, pout>>

\* the answers typed at the prompts of remove_checksums, one per line of the
\* manifest: always "y", always "n", or "y" for the odd lines only
AnswerInputs == {"yes", "no", "odd"}

Answers(policy, n) ==
    [i \in 1..n |-> IF policy = "yes" \/ (policy = "odd" /\ i % 2 = 1) THEN "y" ELSE "n"]

\* an exception ends the call of remove_missing_checksums
RemoveRaised(args, e) ==
    /\ last' = [op |-> "remove", args |-> args, err |-> e]
    /\ UNCHANGED <<mf, pc, cur>>

\* md5file_utils.py:383: the manifest is renamed when save_orig is set
RemoveRenamed(args, plan, sl) ==
    IF sl.err # None THEN RemoveRaised(args, sl.err)
    ELSE /\ mf' = sl.m
         /\ pc' = "remove"
         /\ cur' = [op |-> "remove", args |-> args,
                    save_location |-> sl.save_location, old |-> sl.old,
                    lines_to_write |-> plan.lines_to_write,
                    removed_lines |-> plan.removed_lines]
         /\ UNCHANGED last

\* md5file_utils.py:382-383, given the lines to write
RemovePlanned(args, plan, save_path) ==
    IF plan.err # None THEN RemoveRaised(args, plan.err)
    ELSE RemoveRenamed(args, plan,
                       get_checksum_save_location(files, mf, save_path, ~args.save_orig,
                                                  FALSE))

\* checksums.py:475-477, given the missing files
RemoveMissing(args, checksum_filepath, missing) ==
    IF missing.err # None THEN RemoveRaised(args, missing.err)
    ELSE RemovePlanned(
             args,
             remove_checksums_plan(
                 mf, checksum_filepath, missing.missing_files, args.require_confirmation,
                 Answers(args.policy, Len(mf[Phys(checksum_filepath)]))),
             remove_save_path(checksum_filepath))

\* checksums.py:468-474: without a manifest the call returns 0
RemoveLocated(args, loc) ==
    IF loc.err # None THEN RemoveRaised(args, loc.err)
    ELSE IF ~path_exists(files, mf, loc.save_location)
    THEN /\ last' = [op |-> "remove", args |-> args, err |-> None, removed |-> 0,
                     old |-> <<>>]
         /\ UNCHANGED <<mf, pc, cur>>
    ELSE RemoveMissing(args, loc.save_location,
                       finding_missing_files(files, mf, folder_arg, loc.save_location))

\* remove_missing_checksums, and remove_checksums up to line 383; nothing is
\* typed when no confirmation is required
RemoveBegin(save_orig, require_confirmation, policy) ==
    /\ pc = "idle"
    /\ (~require_confirmation => policy = "yes")
    /\ nops < MaxOps
    /\ nops' = nops + 1
    /\ RemoveLocated([folder_path |-> folder_arg, save_orig |-> save_orig,
                      require_confirmation |-> require_confirmation, policy |-> policy],
                     get_checksum_save_location(files, mf, folder_arg, TRUE, FALSE))
    /\ UNCHANGED <<folder_arg, files, nenv, pin, pout>>

\* remove_checksums, line 386, and remove_missing_checksums, line 479
RemoveWritten(wr) ==
    /\ mf' = wr.m
    /\ last' = [op |-> "remove", args |-> cur.args, err |-> wr.err,
                removed |-> Len(cur.removed_lines), old |-> cur.old]

\* remove_checksums, lines 384-386, and remove_missing_checksums, line 479
RemoveFinish ==
    /\ pc = "remove"
    /\ RemoveWritten(append_unique_lines_to_file(files, mf, cur.save_location,
                                                 cur.lines_to_write))
    /\ pc' = "idle"
    /\ cur' = Idle
    /\ UNCHANGED <<folder_arg, files, nops, nenv, pin, pout>>

\* the process is killed between the rename and the write
Interrupt ==
    /\ pc # "idle"
    /\ last' = [op |-> "killed", args |-> cur.args, of |-> cur.op]
    /\ pc' = "idle"
    /\ cur' = Idle
    /\ UNCHANGED <<folder_arg, files, mf, nops, nenv, pin, pout>>

\* the user creates a file or changes its content
WriteFile(slot, content) ==
    /\ pc = "idle"
    /\ nenv < MaxEnv
    /\ files[slot] # content
    /\ files' = [files EXCEPT ![slot] = content]
    /\ nenv' = nenv + 1
    /\ last' = [op |-> "write"]
    /\ UNCHANGED <<folder_arg, mf, pc, cur, nops, pin, pout>>

\* the user deletes a file
DeleteFile(slot) ==
    /\ pc = "idle"
    /\ nenv < MaxEnv
    /\ files[slot] # NoFile
    /\ files' = [files EXCEPT ![slot] = NoFile]
    /\ nenv' = nenv + 1
    /\ last' = [op |-> "delete"]
    /\ UNCHANGED <<folder_arg, mf, pc, cur, nops, pin, pout>>

Next ==
    \/ \E updating_only \in BOOLEAN, unsorted \in UnsortedInputs,
          files_to_ignore \in IgnoreInputs :
           GenerateBegin(updating_only, unsorted, files_to_ignore)
    \/ GenerateFinish
    \/ \E updating_only \in BOOLEAN : NestChecksums(updating_only)
    \/ \E use_nested_checksums \in BOOLEAN, follow_nested_dirs \in BOOLEAN :
           VerifyChecksums(use_nested_checksums, follow_nested_dirs)
    \/ \E save_orig \in BOOLEAN, require_confirmation \in BOOLEAN,
          policy \in AnswerInputs :
           RemoveBegin(save_orig, require_confirmation, policy)
    \/ RemoveFinish
    \/ Interrupt
    \/ \E slot \in Slots, content \in Hashes : WriteFile(slot, content)
    \/ \E slot \in Slots : DeleteFile(slot)

Spec == Init /\ [][Next]_vars

(***************************************************************************)
(* separate_by_dirs on its own: the entries of a manifest are drawn from a *)
(* bounded set and the function is applied to them.                        *)
(***************************************************************************)
PairPaths == { <<".", "/", "f">>, <<".", "/", "g">>, <<".", "/", "a", "/", "f">> }

PairInputs ==
    UNION { [1..n -> [filepath : PairPaths, checksum : {<<"c1">>, <<"c2">>}]] :
              n \in 0..MaxPairs }

InitDirs ==
    /\ pin \in PairInputs
    /\ pout = Idle
    /\ pc = "call"
    /\ folder_arg = <<"tf">>
    /\ files = InitFiles
    /\ mf = <<>>
    /\ cur = Idle
    /\ last = Idle
    /\ nops = 0
    /\ nenv = 0

\* separate_by_dirs(filepaths, checksums)
SeparateByDirs ==
    /\ pc = "call"
    /\ pout' = separate_by_dirs([i \in 1..Len(pin) |-> pin[i].filepath],
                                [i \in 1..Len(pin) |-> pin[i].checksum])
    /\ pc' = "returned"
    /\ UNCHANGED <<folder_arg, files, mf, cur, last, nops, nenv, pin>>

NextDirs == SeparateByDirs

SpecDirs == InitDirs /\ [][NextDirs]_vars

\* two entries of the input have the same directory and filename, and
\* different checksums
Conflicting(entries) ==
    \E i, j \in 1..Len(entries) :
        /\ entries[i].filepath = entries[j].filepath
        /\ entries[i].checksum # entries[j].checksum

\* a filename is listed twice for one directory of the result
ListedTwice(r) ==
    \E x \in 1..Len(r.filenames) :
        \E i, j \in 1..Len(r.filenames[x]) : i # j /\ r.filenames[x][i] = r.filenames[x][j]

\* C10: separate_by_dirs raises ValueError exactly for the inputs that hold two
\* entries with the same directory and filename and different checksums, and a
\* result it returns lists each filename at most once per directory.
C10_RaisesIffConflict ==
    pc = "returned" =>
        /\ (pout.err = "ValueError") <=> Conflicting(pin)
        /\ (pout.err = None => ~ListedTwice(pout))

(***************************************************************************)
(* separate_by_uniqueness on its own: the (filename, checksum) pairs are   *)
(* drawn from a bounded set and the function is applied to them.           *)
(***************************************************************************)
NameInputs ==
    UNION { [1..n -> [filename : {<<"f">>, <<"g">>}, checksum : {<<"c1">>, <<"c2">>}]] :
              n \in 0..MaxNames }

InitUniq ==
    /\ pin \in NameInputs
    /\ pout = Idle
    /\ pc = "call"
    /\ folder_arg = <<"tf">>
    /\ files = InitFiles
    /\ mf = <<>>
    /\ cur = Idle
    /\ last = Idle
    /\ nops = 0
    /\ nenv = 0

\* separate_by_uniqueness(filenames, checksums)
SeparateByUniqueness ==
    /\ pc = "call"
    /\ pout' = separate_by_uniqueness([i \in 1..Len(pin) |-> pin[i].filename],
                                      [i \in 1..Len(pin) |-> pin[i].checksum])
    /\ pc' = "returned"
    /\ UNCHANGED <<folder_arg, files, mf, cur, last, nops, nenv, pin>>

NextUniq == SeparateByUniqueness

SpecUniq == InitUniq /\ [][NextUniq]_vars

\* how often the pair (filename, checksum) occurs in two parallel lists
PairCount(filenames, checksums, filename, checksum) ==
    Cardinality({i \in 1..Len(filenames) :
                    filenames[i] = filename /\ checksums[i] = checksum})

\* how often the filename occurs in a list
NameCount(filenames, filename) ==
    Cardinality({i \in 1..Len(filenames) : filenames[i] = filename})

InputNames == [i \in 1..Len(pin) |-> pin[i].filename]

InputChecksums == [i \in 1..Len(pin) |-> pin[i].checksum]

\* C11: separate_by_uniqueness puts the filenames that occur once, with their
\* checksum, in the unique group and every occurrence of a filename that occurs
\* twice or more, with its checksum, in the duplicate group; no filename is in
\* both groups and every occurrence of the input is in the output exactly once.
C11_UniquenessPartition ==
    pc = "returned" =>
        /\ Len(pout.unique_checksums) = Len(pout.unique_filenames)
        /\ Len(pout.non_unique_checksums) = Len(pout.non_unique_filenames)
        /\ \A e \in {pin[i] : i \in 1..Len(pin)} :
               LET n == NameCount(InputNames, e.filename)
                   k == PairCount(InputNames, InputChecksums, e.filename, e.checksum)
               IN  /\ PairCount(pout.unique_filenames, pout.unique_checksums,
                                e.filename, e.checksum) = (IF n = 1 THEN 1 ELSE 0)
                   /\ PairCount(pout.non_unique_filenames, pout.non_unique_checksums,
                                e.filename, e.checksum) = (IF n = 1 THEN 0 ELSE k)
                   /\ NameCount(pout.unique_filenames, e.filename) = 0
                          \/ NameCount(pout.non_unique_filenames, e.filename) = 0
        /\ Len(pout.unique_filenames) + Len(pout.non_unique_filenames) = Len(pin)

\* a filename that occurs three times, after one that occurs once
C11_Witness ==
    /\ pc = "returned"
    /\ Len(pin) = 4
    /\ NameCount(InputNames, pin[1].filename) = 1
    /\ NameCount(InputNames, pin[2].filename) = 3
    /\ Len(pout.unique_filenames) = 1
    /\ Len(pout.non_unique_filenames) = 3

MainPath == <<main_checksum_filename>>

(***************************************************************************)
(* append_unique_lines_to_file on its own: the file is absent or holds up  *)
(* to two lines, the lines to append are drawn from a bounded set.         *)
(***************************************************************************)
LineInputs == { <<"a">>, <<"b">> }

LineSeqs(n) == UNION { [1..k -> LineInputs] : k \in 0..n }

AppendPath == <<"tf", "/", main_checksum_filename>>

InitAppend ==
    /\ pin \in [existed : BOOLEAN, content : LineSeqs(2), lines : LineSeqs(MaxLines)]
    /\ (~pin.existed => pin.content = <<>>)
    /\ mf = IF pin.existed THEN (MainPath :> pin.content) ELSE <<>>
    /\ pout = Idle
    /\ pc = "call"
    /\ folder_arg = <<"tf">>
    /\ files = InitFiles
    /\ cur = Idle
    /\ last = Idle
    /\ nops = 0
    /\ nenv = 0

\* append_unique_lines_to_file(filepath, lines)
AppendUniqueLines ==
    /\ pc = "call"
    /\ pout' = append_unique_lines_to_file(files, mf, AppendPath, pin.lines)
    /\ mf' = pout'.m
    /\ pc' = "returned"
    /\ UNCHANGED <<folder_arg, files, cur, last, nops, nenv, pin>>

NextAppend == AppendUniqueLines

SpecAppend == InitAppend /\ [][NextAppend]_vars

\* the lines of a list that are in none of the places of another, in order
RECURSIVE NotAmong(_, _)
NotAmong(lines, existing) ==
    IF lines = <<>> THEN <<>>
    ELSE IF \E i \in 1..Len(existing) : existing[i] = Head(lines)
    THEN NotAmong(Tail(lines), existing)
    ELSE <<Head(lines)>> \o NotAmong(Tail(lines), existing)

\* C15: append_unique_lines_to_file keeps the content of an existing file as a
\* prefix and appends, in input order, exactly the input lines that equal no
\* line the file held; an absent file is created with the input lines.
C15_AppendUniqueLines ==
    pc = "returned" =>
        /\ pout.err = None
        /\ DOMAIN mf = {MainPath}
        /\ IF pin.existed
           THEN /\ SubSeq(mf[MainPath], 1, Len(pin.content)) = pin.content
                /\ SubSeq(mf[MainPath], Len(pin.content) + 1, Len(mf[MainPath]))
                       = NotAmong(pin.lines, pin.content)
                /\ \A i \in (Len(pin.content) + 1)..Len(mf[MainPath]) :
                       \A j \in 1..Len(pin.content) : mf[MainPath][i] # pin.content[j]
           ELSE mf[MainPath] = pin.lines

\* the file held one line; of three input lines the one it held is left out
C15_Witness ==
    /\ pc = "returned"
    /\ pin.existed /\ pin.content = << <<"a">> >>
    /\ pin.lines = << <<"b">>, <<"a">>, <<"b">> >>
    /\ mf[MainPath] = << <<"a">>, <<"b">>, <<"b">> >>
(***************************************************************************)
(* nest_checksums(root_folder, True) on a tree that was nested before: the *)
(* Main Manifest holds up to MaxEntries entries and each directory has no  *)
(* Nested Manifest or one with lines of an earlier Main Manifest.          *)
(***************************************************************************)
InjectiveSeqs(S, n) ==
    {s \in UNION { [1..k -> S] : k \in 0..n } :
        \A i, j \in DOMAIN s : i # j => s[i] # s[j]}

EntryInputs ==
    { [filepath |-> <<".", "/", "f">>, checksum |-> <<"c1">>],
      [filepath |-> <<".", "/", "f">>, checksum |-> <<"c2">>],
      [filepath |-> <<".", "/", "g">>, checksum |-> <<"c2">>],
      [filepath |-> <<".", "/", "a", "/", "f">>, checksum |-> <<"c1">>] }

MainLine(e) == get_custom_md5line_string(e.filepath, e.checksum)

ShortLine(e) == get_short_custom_md5line_string(e.filepath, e.checksum)

MainInputs ==
    {<<main_checksum_header>> \o [i \in DOMAIN s |-> MainLine(s[i])] :
        s \in InjectiveSeqs(EntryInputs, MaxEntries)}

\* the Nested Manifests a directory may hold: the lines of earlier entries of it
NestedInputs(d, n) ==
    {<<nested_checksum_header>> \o [i \in DOMAIN s |-> ShortLine(s[i])] :
        s \in InjectiveSeqs({e \in EntryInputs : Phys(<<"tf", "/">> \o dirname(e.filepath)) = d},
                            n)}

NestedFile(d, present, lines) ==
    IF present THEN (d \o <<nested_checksum_filename>>) :> lines ELSE <<>>

InitNest ==
    /\ folder_arg = <<"tf">>
    /\ files = InitFiles
    /\ \E main \in MainInputs, top_present \in BOOLEAN, a_present \in BOOLEAN,
          top \in NestedInputs(<<>>, 2), a \in NestedInputs(<<"a">>, 1) :
           /\ (~top_present => top = <<nested_checksum_header>>)
           /\ (~a_present => a = <<nested_checksum_header>>)
           /\ mf = (MainPath :> main) @@ NestedFile(<<>>, top_present, top)
                       @@ NestedFile(<<"a">>, a_present, a)
    /\ pin = mf
    /\ pout = Idle
    /\ pc = "call"
    /\ cur = Idle
    /\ last = Idle
    /\ nops = 0
    /\ nenv = 0

\* nest_checksums(root_folder, True), a first and a second time
NestUpdate ==
    /\ pc \in {"call", "once"}
    /\ pout' = nest_checksums(files, mf, folder_arg, TRUE)
    /\ mf' = pout'.m
    /\ last' = [op |-> "nest", before |-> mf]
    /\ pc' = IF pc = "call" THEN "once" ELSE "twice"
    /\ UNCHANGED <<folder_arg, files, cur, nops, nenv, pin>>

NextNest == NestUpdate

SpecNest == InitNest /\ [][NextNest]_vars

(***************************************************************************)
(* delete_nested_checksum_files on its own: each directory holds no file   *)
(* named .nested_checksum.txt, a Nested Manifest, or a file of that name   *)
(* that starts with something else; rotated and Main Manifests may exist.  *)
(***************************************************************************)
NamedNestedInputs ==
    { <<nested_checksum_header>>,
      <<nested_checksum_header, <<"f", Arrow[1], "c1">>>>,
      <<main_checksum_header, <<".", "/", "f", Arrow[1], "c1">>>>,
      << <<"f", Arrow[1], "c1">> >>,
      <<>> }

OptionalFile(ph, present, lines) == IF present THEN ph :> lines ELSE <<>>

\* the manifests of one directory
DirManifests(d, nested, content, rotated, main) ==
    OptionalFile(d \o <<nested_checksum_filename>>, nested, content)
        @@ OptionalFile(d \o <<OldName(TRUE, 0)>>, rotated,
                        <<nested_checksum_header, <<"f", Arrow[1], "c2">>>>)
        @@ OptionalFile(d \o <<main_checksum_filename>>, main,
                        <<main_checksum_header, <<".", "/", "f", Arrow[1], "c1">>>>)

DirInputs(d) ==
    {DirManifests(d, nested, content, rotated, main) :
        nested \in BOOLEAN, content \in NamedNestedInputs, rotated \in BOOLEAN,
        main \in BOOLEAN}

InitDelete ==
    /\ folder_arg \in FolderPaths
    /\ files = InitFiles
    /\ \E top \in DirInputs(<<>>), sub \in DirInputs(<<"a">>) : mf = top @@ sub
    /\ pin = mf
    /\ pout = Idle
    /\ pc = "call"
    /\ cur = Idle
    /\ last = Idle
    /\ nops = 0
    /\ nenv = 0

\* delete_nested_checksum_files(root_folder)
DeleteNested ==
    /\ pc = "call"
    /\ pout' = delete_nested_checksum_files(mf, folder_arg)
    /\ mf' = pout'.m
    /\ pc' = "returned"
    /\ UNCHANGED <<folder_arg, files, cur, last, nops, nenv, pin>>

NextDelete == DeleteNested

SpecDelete == InitDelete /\ [][NextDelete]_vars

(***************************************************************************)
(* The header check on its own: tf holds canonical manifest files whose    *)
(* first line is or is not the header, and get_checksum_save_location or   *)
(* extract_from_md5file is applied to them.                                *)
(***************************************************************************)
CanonicalInputs ==
    { <<main_checksum_header, <<".", "/", "f", Arrow[1], "c1">>>>,
      <<nested_checksum_header, <<"f", Arrow[1], "c1">>>>,
      <<main_checksum_header \o <<" ">>, <<".", "/", "f", Arrow[1], "c1">>>>,
      << <<".", "/", "f", Arrow[1], "c1">> >>,
      <<>> }

InitHeader ==
    /\ folder_arg \in FolderPaths
    /\ files = InitFiles
    /\ \E main \in BOOLEAN, nested \in BOOLEAN,
          main_lines \in CanonicalInputs, nested_lines \in CanonicalInputs :
           mf = OptionalFile(<<main_checksum_filename>>, main, main_lines)
                    @@ OptionalFile(<<nested_checksum_filename>>, nested, nested_lines)
    /\ pin = mf
    /\ pout = Idle
    /\ pc = "call"
    /\ cur = Idle
    /\ last = Idle
    /\ nops = 0
    /\ nenv = 0

\* get_checksum_save_location(folder, updating_only, nested)
GetSaveLocation(updating_only, nested) ==
    /\ pc = "call"
    /\ pout' = [op |-> "locate", updating_only |-> updating_only, nested |-> nested,
                r |-> get_checksum_save_location(files, mf, folder_arg, updating_only,
                                                 nested)]
    /\ mf' = pout'.r.m
    /\ pc' = "returned"
    /\ UNCHANGED <<folder_arg, files, cur, last, nops, nenv, pin>>

\* extract_from_md5file(md5_filepath, format_type) on a canonical file of tf
ExtractFromMd5file(nested, format_type) ==
    /\ pc = "call"
    /\ pout' = [op |-> "extract", nested |-> nested, format_type |-> format_type,
                r |-> extract_from_tree(mf, <<CanonName(nested)>>, format_type)]
    /\ pc' = "returned"
    /\ UNCHANGED <<folder_arg, files, mf, cur, last, nops, nenv, pin>>

NextHeader ==
    \/ \E updating_only \in BOOLEAN, nested \in BOOLEAN :
           GetSaveLocation(updating_only, nested)
    \/ \E nested \in BOOLEAN, format_type \in {"custom", "custom_nested"} :
           ExtractFromMd5file(nested, format_type)

SpecHeader == InitHeader /\ [][NextHeader]_vars

(***************************************************************************)
(* A generate_checksums run killed while it writes a new manifest: open()  *)
(* has created the file (utils/files.py:161) and the first k lines reached *)
(* it.  generate_checksums(folder_path, True) is then run on the tree.     *)
(***************************************************************************)
TreeInputs == {InitFiles} \cup {[InitFiles EXCEPT ![s] = NoFile] : s \in Slots}

PlainArgs(updating_only) ==
    [folder_path |-> folder_arg, updating_only |-> updating_only,
     unsorted |-> NoUnsortedSource, files_to_ignore |-> <<>>]

InitCrash ==
    /\ folder_arg \in FolderPaths
    /\ files \in TreeInputs
    /\ mf \in {<<>>, Generated(folder_arg)}
    /\ pin = <<>>
    /\ pout = Idle
    /\ pc = "call"
    /\ cur = Idle
    /\ last = Idle
    /\ nops = 0
    /\ nenv = 0

\* utils/files.py:161-163: the manifest is created and the process ends after k
\* of the lines the run r writes
KilledAfter(k, sl, r) ==
    /\ sl.err = None
    /\ r.err = None
    /\ Phys(sl.save_location) \notin DOMAIN sl.m
    /\ k < Len(r.m[Phys(sl.save_location)])
    /\ mf' = FsPut(sl.m, Phys(sl.save_location),
                   SubSeq(r.m[Phys(sl.save_location)], 1, k))
    /\ pin' = [full |-> r.m[Phys(sl.save_location)], written |-> k]

\* generate_checksums(folder_path, updating_only), killed during the write
GenerateKilled(updating_only, k) ==
    /\ pc = "call"
    /\ KilledAfter(k,
                   get_checksum_save_location(files, mf, folder_arg, updating_only, FALSE),
                   generate_checksums(files, mf, PlainArgs(updating_only)))
    /\ pc' = "killed"
    /\ UNCHANGED <<folder_arg, files, cur, last, nops, nenv, pout>>

\* generate_checksums(folder_path, True) after the killed run
GenerateResumed ==
    /\ pc = "killed"
    /\ pout' = generate_checksums(files, mf, PlainArgs(TRUE))
    /\ mf' = pout'.m
    /\ pc' = "resumed"
    /\ UNCHANGED <<folder_arg, files, cur, last, nops, nenv, pin>>

NextCrash ==
    \/ \E updating_only \in BOOLEAN, k \in 0..MaxWritten :
           GenerateKilled(updating_only, k)
    \/ GenerateResumed

SpecCrash == InitCrash /\ [][NextCrash]_vars

(***************************************************************************)
(* The line classes on their own (md5lines/*.py): a path that starts with  *)
(* "./" and a checksum are serialized in a format and extracted again.     *)
(***************************************************************************)
PathTokens == {"a", "f", "/", ".", " ", "*", " -> ", "e-acute", "e+acute"}

PathInputs ==
    {<<".", "/">> \o s : s \in UNION { [1..k -> PathTokens] : k \in 1..MaxPathLen }}

ChecksumInputs == {<<h>> : h \in HexTokens}

InitCodec ==
    /\ pin \in [format_type : Formats \ {"custom_nested"}, filepath : PathInputs,
                checksum : ChecksumInputs]
    /\ pout = Idle
    /\ pc = "call"
    /\ folder_arg = <<"tf">>
    /\ files = InitFiles
    /\ mf = <<>>
    /\ cur = Idle
    /\ last = Idle
    /\ nops = 0
    /\ nenv = 0

\* get_*_string, then extract_filepath and extract_checksum of the line
SerializeAndExtract ==
    /\ pc = "call"
    /\ cur' = [op |-> "line",
               line |-> get_line_string(pin.filepath, pin.checksum, pin.format_type)]
    /\ pout' = [op |-> "extract",
                filepath |-> extract_filepath(cur'.line, pin.format_type),
                checksum |-> extract_checksum(cur'.line, pin.format_type)]
    /\ pc' = "returned"
    /\ UNCHANGED <<folder_arg, files, mf, last, nops, nenv, pin>>

NextCodec == SerializeAndExtract

SpecCodec == InitCodec /\ [][NextCodec]_vars

(***************************************************************************)
(* The line classes on arbitrary lines: every line of up to MaxLineLen     *)
(* tokens is validated and extracted in every format.                      *)
(***************************************************************************)
LineTokens == {"c1", "zz", " ", "*", ".", "/", " -> ", "f"}

InitParse ==
    /\ pin \in [format_type : Formats,
                line : UNION { [1..k -> LineTokens] : k \in 0..MaxLineLen }]
    /\ pout = Idle
    /\ pc = "call"
    /\ folder_arg = <<"tf">>
    /\ files = InitFiles
    /\ mf = <<>>
    /\ cur = Idle
    /\ last = Idle
    /\ nops = 0
    /\ nenv = 0

\* validate_md5line, extract_filepath and extract_checksum of the line
ExtractLine ==
    /\ pc = "call"
    /\ pout' = [op |-> "extract",
                valid |-> validate_md5line(pin.line, pin.format_type),
                filepath |-> extract_filepath(pin.line, pin.format_type),
                checksum |-> extract_checksum(pin.line, pin.format_type)]
    /\ pc' = "returned"
    /\ UNCHANGED <<folder_arg, files, mf, cur, last, nops, nenv, pin>>

NextParse == ExtractLine

SpecParse == InitParse /\ [][NextParse]_vars

(***************************************************************************)
(* generate_checksums with an unsorted source that lists the same pairs in *)
(* the format md5, custom or teracopy.                                     *)
(***************************************************************************)
SourcePairInputs ==
    [filepath : { <<".", "/", "f">>, <<".", "/", "x", "/", "f">>,
                  <<".", "/", "x", "/", "g">> },
     checksum : { <<"c1">>, <<"c2">>, <<"C2">> }]

\* the file of the format that lists the pairs; a custom file starts with its header
SourceLines(pairs, format_type) ==
    (IF format_type = "custom" THEN <<main_checksum_header>> ELSE <<>>)
        \o [i \in DOMAIN pairs |->
               get_line_string(pairs[i].filepath, pairs[i].checksum, format_type)]

SourceArgs(pairs, format_type) ==
    [folder_path |-> folder_arg, updating_only |-> FALSE,
     unsorted |-> [given |-> TRUE, format |-> format_type,
                   lines |-> SourceLines(pairs, format_type)],
     files_to_ignore |-> <<>>]

InitFormats ==
    /\ folder_arg \in FolderPaths
    /\ files \in TreeInputs
    /\ mf = <<>>
    /\ pin \in UNION { [1..k -> SourcePairInputs] : k \in 0..MaxSourcePairs }
    /\ pout = Idle
    /\ pc = "call"
    /\ cur = Idle
    /\ last = Idle
    /\ nops = 0
    /\ nenv = 0

\* generate_checksums(folder_path, False, source, format) for each format, and
\* revert_md5file_to_teracopy_format of the custom source read back
GenerateFromFormats ==
    /\ pc = "call"
    /\ pout' = [op |-> "formats",
                md5 |-> generate_checksums(files, mf, SourceArgs(pin, "md5")),
                custom |-> generate_checksums(files, mf, SourceArgs(pin, "custom")),
                teracopy |-> generate_checksums(files, mf, SourceArgs(pin, "teracopy")),
                original |-> extract_from_md5file(SourceLines(pin, "custom"), "custom"),
                reverted |-> extract_from_md5file(
                    revert_md5file_to_teracopy_format(SourceLines(pin, "custom")).lines,
                    "teracopy")]
    /\ mf' = pout'.custom.m
    /\ pc' = "returned"
    /\ UNCHANGED <<folder_arg, files, cur, last, nops, nenv, pin>>

NextFormats == GenerateFromFormats

SpecFormats == InitFormats /\ [][NextFormats]_vars

(***************************************************************************)
(* remove_missing_checksums on a tree that holds Nested Manifests, current *)
(* and rotated, next to the Main Manifest; files of the tree may be gone.  *)
(***************************************************************************)
NestedVersions(d, current, rotated) ==
    OptionalFile(d \o <<nested_checksum_filename>>, current,
                 <<nested_checksum_header, <<"f", Arrow[1], "c1">>>>)
        @@ OptionalFile(d \o <<OldName(TRUE, 0)>>, rotated,
                        <<nested_checksum_header, <<"f", Arrow[1], "c2">>>>)

InitRemove ==
    /\ folder_arg \in FolderPaths
    /\ files \in TreeInputs
    /\ \E main \in BOOLEAN, top \in BOOLEAN, top_old \in BOOLEAN,
          sub \in BOOLEAN, sub_old \in BOOLEAN :
           mf = (IF main THEN Generated(folder_arg) ELSE <<>>)
                    @@ NestedVersions(<<>>, top, top_old)
                    @@ NestedVersions(<<"a">>, sub, sub_old)
    /\ pc = "idle"
    /\ cur = Idle
    /\ last = Idle
    /\ nops = 0
    /\ nenv = 0
    /\ pin = <<>>
    /\ pout = Idle

NextRemove ==
    \/ \E save_orig \in BOOLEAN, require_confirmation \in BOOLEAN,
          policy \in AnswerInputs :
           RemoveBegin(save_orig, require_confirmation, policy)
    \/ RemoveFinish

SpecRemove == InitRemove /\ [][NextRemove]_vars

(***************************************************************************)
(* Properties.                                                             *)
(***************************************************************************)

IsCanonical(ph) == Last(ph) \in {main_checksum_filename, nested_checksum_filename}

\* q is the name of a rotated version of the canonical manifest ph
RotatedNameOf(ph, q) ==
    /\ DropLast(q) = DropLast(ph)
    /\ \E nested \in BOOLEAN, k \in 0..(MaxOps + 2) :
           Last(ph) = CanonName(nested) /\ Last(q) = OldName(nested, k)

\* the step belongs to a call that resolves its save location with
\* updating_only = False
RotatingStep ==
    \/ pc = "idle" /\ pc' = "generate" /\ ~cur'.args.updating_only
    \/ pc = "generate" /\ pc' = "idle" /\ last'.op = "generate" /\ ~cur.args.updating_only
    \/ pc = "idle" /\ pc' = "remove" /\ cur'.args.save_orig
    \/ pc = "remove" /\ pc' = "idle" /\ last'.op = "remove" /\ cur.args.save_orig
    \/ /\ pc = "idle" /\ pc' = "idle" /\ nops' = nops + 1
       /\ last'.op = "nest" /\ ~last'.args.updating_only

Preserved(ph) == ph \in DOMAIN mf' /\ mf'[ph] = mf[ph]

RotatedAway(ph) ==
    /\ IsCanonical(ph)
    /\ \E q \in (DOMAIN mf') \ (DOMAIN mf) : RotatedNameOf(ph, q) /\ mf'[q] = mf[ph]

\* C1: a step of a non-updating generate_checksums, nest_checksums or
\* remove_checksums(save_orig=True) leaves every manifest version file as it
\* was, or, for the canonical file, moves its content to an _old / _old (n)
\* name that did not exist before; no rotated file is overwritten or lost.
C1_RotationKeepsVersions ==
    [][RotatingStep =>
          /\ \A ph \in DOMAIN mf : Preserved(ph) \/ RotatedAway(ph)
          /\ (pc' \in {"generate", "remove"} /\ MainPath \in DOMAIN mf) =>
                 /\ MainPath \notin DOMAIN mf'
                 /\ RotatedAway(MainPath)
                 /\ cur'.old # <<>>]_vars

\* a second rotation of the main manifest has just taken place
C1_Witness ==
    /\ pc = "generate"
    /\ ~cur.args.updating_only
    /\ basename(cur.old) = <<OldName(FALSE, 1)>>
    /\ {MainPath} \cap DOMAIN mf = {}
    /\ <<OldName(FALSE, 0)>> \in DOMAIN mf
    /\ <<OldName(FALSE, 1)>> \in DOMAIN mf

\* the root-relative path of the file at a physical path: "./a/f" for <<"a", "f">>
RECURSIVE RelPath(_)
RelPath(ph) == IF ph = <<>> THEN <<".">> ELSE RelPath(DropLast(ph)) \o <<"/", Last(ph)>>

\* the regular files of the tree
Present == {q \in Slots : files[q] # NoFile}

\* the manifest line of a regular file: its root-relative path and the MD5 of its content
TrueLine(q) == RelPath(q) \o Arrow \o <<files[q]>>

DataLines(lines) == {lines[i] : i \in 2..Len(lines)}

\* a generate_checksums call returns
GenerateReturns == pc = "generate" /\ pc' = "idle" /\ last'.op = "generate"

\* C2: generate_checksums(folder, updating_only=False) on a tree without any
\* manifest and without unsorted source leaves a Main Manifest made of the
\* header and exactly one line "<root-relative path> -> <MD5>" for every file
\* that is not in the ignore list.
C2_FreshManifestLines ==
    [][(GenerateReturns /\ ~cur.args.updating_only /\ ~cur.args.unsorted.given
            /\ DOMAIN mf = {}) =>
          LET expected == {TrueLine(q) : q \in {r \in Present :
                                  ~InSeq(<<Last(r)>>, cur.args.files_to_ignore)}}
          IN  /\ last'.err = None
              /\ MainPath \in DOMAIN mf'
              /\ mf'[MainPath][1] = main_checksum_header
              /\ DataLines(mf'[MainPath]) = expected
              /\ Len(mf'[MainPath]) = 1 + Cardinality(expected)]_vars

\* the path recorded by a line of a Main Manifest
LinePath(line) == extract_from_md5line(line, "custom").filepath

RecordedPaths(lines) == {LinePath(lines[i]) : i \in 2..Len(lines)}

\* C3: generate_checksums(updating_only=True) without unsorted source on an
\* existing Main Manifest keeps the existing lines in place, creates no rotated
\* file, appends no line for a path that is already recorded, and appends one
\* line for every other file that is not in the ignore list.
C3_UpdateAppendsOnlyNewFiles ==
    [][(GenerateReturns /\ cur.args.updating_only /\ ~cur.args.unsorted.given
            /\ MainPath \in DOMAIN mf) =>
          LET before   == mf[MainPath]
              after    == mf'[MainPath]
              appended == SubSeq(after, Len(before) + 1, Len(after))
              others   == {q \in Present :
                              /\ RelPath(q) \notin RecordedPaths(before)
                              /\ ~InSeq(<<Last(q)>>, cur.args.files_to_ignore)}
          IN  /\ DOMAIN mf' = DOMAIN mf
              /\ SubSeq(after, 1, Len(before)) = before
              /\ \A i \in 1..Len(appended) :
                     LinePath(appended[i]) \notin RecordedPaths(before)
              /\ \A q \in others :
                     Cardinality({i \in 1..Len(appended) :
                                     LinePath(appended[i]) = RelPath(q)}) = 1]_vars

\* C4: a generate_checksums(updating_only=True) call that repeats the call
\* completed just before it, with no change of the tree in between, leaves
\* every manifest as the first call left it.
C4_SecondUpdateChangesNothing ==
    [][(GenerateReturns /\ cur.args.updating_only /\ last.op = "generate"
            /\ last.args = cur.args /\ last.err = None) =>
          (mf' = mf /\ last'.err = None)]_vars

\* the second of two identical updating calls has returned, and both reported
\* failed checksums
C4_Witness ==
    /\ pc = "idle"
    /\ last.op = "generate"
    /\ last.again
    /\ last.args.updating_only
    /\ last.err = None
    /\ last.failed # <<>>
    /\ MainPath \in DOMAIN mf
    /\ Len(mf[MainPath]) > 1

\* the recorded path names something that exists under the folder
ExistsUnder(filepath) ==
    LET ph == Segs(filepath) IN ph \in Present \/ ph \in DOMAIN mf \/ ph \in Dirs

\* a remove_missing_checksums call that found a Main Manifest returns
RemoveReturns == pc = "remove" /\ pc' = "idle" /\ last'.op = "remove"

\* the lines of a manifest (after the header) that satisfy Keep, in order
KeptLines(lines, Keep(_)) ==
    LET kept == {i \in 2..Len(lines) : Keep(i)}
        Sel[i \in 1..(Len(lines) + 1)] ==
            IF i > Len(lines) THEN <<>>
            ELSE IF i \in kept THEN <<lines[i]>> \o Sel[i + 1] ELSE Sel[i + 1]
    IN  Sel[2]

\* C5: after remove_missing_checksums(folder, save_orig=False,
\* require_confirmation=False) the Main Manifest holds the header and the lines
\* whose path exists under the folder, no line whose path does not exist, the
\* call returns the number of missing lines, and no _old file is created.
C5_PruneInPlace ==
    [][(RemoveReturns /\ ~cur.args.save_orig /\ ~cur.args.require_confirmation) =>
          LET before == mf[MainPath]
              exists(i) == ExistsUnder(LinePath(before[i]))
          IN  /\ DOMAIN mf' = DOMAIN mf
              /\ mf'[MainPath] = <<main_checksum_header>> \o KeptLines(before, exists)
              /\ last'.removed = Cardinality({i \in 2..Len(before) : ~exists(i)})]_vars

\* C6: remove_missing_checksums(folder, save_orig=True, ...) moves the Main
\* Manifest to a new _old name, and writes a Main Manifest made of the header and
\* the original lines but those whose path is missing under the folder and
\* whose removal was confirmed; it returns the number of lines it left out and
\* touches no other file.
C6_PruneKeepsOriginal ==
    [][/\ (pc = "idle" /\ pc' = "remove" /\ cur'.args.save_orig) =>
              /\ cur'.old # <<>>
              /\ Phys(cur'.old) \notin DOMAIN mf
              /\ RotatedNameOf(MainPath, Phys(cur'.old))
              /\ mf' = FsRename(mf, MainPath, Phys(cur'.old))
       /\ (RemoveReturns /\ cur.args.save_orig) =>
              LET orig == mf[Phys(cur.old)]
                  confirmed(i) ==
                      \/ ~cur.args.require_confirmation
                      \/ cur.args.policy = "yes"
                      \/ cur.args.policy = "odd" /\ (i - 1) % 2 = 1
                  removed(i) == ~ExistsUnder(LinePath(orig[i])) /\ confirmed(i)
                  kept(i) == ~removed(i)
              IN  /\ last'.err = None
                  /\ MainPath \notin DOMAIN mf
                  /\ mf' = FsPut(mf, MainPath,
                                 <<main_checksum_header>> \o KeptLines(orig, kept))
                  /\ last'.removed = Cardinality({i \in 2..Len(orig) : removed(i)})]_vars

\* a file was deleted, and a pruning with save_orig=True and a prompt answered
\* "y" has returned: the line of the file is in the rotated manifest only
C6_Witness ==
    /\ pc = "idle"
    /\ folder_arg = <<"tf">>
    /\ last.op = "remove"
    /\ last.err = None
    /\ last.args.save_orig
    /\ last.args.require_confirmation
    /\ last.removed = 1
    /\ last.old # <<>>
    /\ Phys(last.old) \in DOMAIN mf
    /\ MainPath \in DOMAIN mf
    /\ \E q \in Slots :
           /\ files[q] = NoFile
           /\ RelPath(q) \in RecordedPaths(mf[Phys(last.old)])
           /\ RelPath(q) \notin RecordedPaths(mf[MainPath])
    /\ Len(mf[MainPath]) = Len(mf[Phys(last.old)]) - 1

\* a verify_checksums call has just returned its lists
Verified == pc = "idle" /\ last.op = "verify" /\ last.err = None /\ last.found

\* the regular files of the directories that the walk of the verified call visits
Visited == {q \in Present : last.args.follow_nested_dirs \/ Len(q) = 1}

\* an entry of the list names the file at the physical path q
InList(list, q) == \E i \in 1..Len(list) : Segs(list[i]) = q

\* the checksum stored in a Main Manifest for a root-relative path
StoredChecksum(lines, filepath) ==
    LET i == SetMin({k \in 2..Len(lines) : LinePath(lines[k]) = filepath})
    IN  extract_from_md5line(lines[i], "custom").checksum[1]

\* C7: verify_checksums in main-manifest mode puts a visited file in new when
\* its root-relative path has no entry in the Main Manifest, in passed when it
\* has one and the file's MD5 equals the stored checksum ignoring case, and in
\* failed when it has one and the MD5 differs.
C7_MainModeClassification ==
    (Verified /\ ~last.args.use_nested_checksums) =>
        \A q \in Visited :
            LET has  == RelPath(q) \in RecordedPaths(mf[MainPath])
                same == Upper(files[q]) = Upper(StoredChecksum(mf[MainPath], RelPath(q)))
            IN  /\ InList(last.new_files, q) <=> ~has
                /\ InList(last.passed, q) <=> (has /\ same)
                /\ InList(last.failed, q) <=> (has /\ ~same)

\* C8: when verify_checksums completes, in main and in nested mode, every
\* visited file is in exactly one of passed, failed and new, and no entry is in
\* two of the lists.
C8_ExactlyOneList ==
    Verified =>
        /\ \A q \in Visited :
               Cardinality({l \in {"passed", "failed", "new_files"} :
                               InList(last[l], q)}) = 1
        /\ SeqToSet(last.passed) \cap SeqToSet(last.failed) = {}
        /\ SeqToSet(last.passed) \cap SeqToSet(last.new_files) = {}
        /\ SeqToSet(last.failed) \cap SeqToSet(last.new_files) = {}

\* C9: verify_checksums with use_nested_checksums=True puts every file of a
\* visited directory that has no nested manifest in new, and in neither passed
\* nor failed, whatever the Main Manifest holds.
C9_NoNestedManifestMeansNew ==
    (Verified /\ last.args.use_nested_checksums) =>
        \A q \in Visited :
            (DropLast(q) \o <<nested_checksum_filename>>) \notin DOMAIN mf =>
                /\ InList(last.new_files, q)
                /\ ~InList(last.passed, q)
                /\ ~InList(last.failed, q)

\* a canonical manifest name or a rotated variant of one
ReservedName(name) ==
    \/ name \in {main_checksum_filename, nested_checksum_filename}
    \/ \E nested \in BOOLEAN, k \in 0..(MaxOps + 2) : name = OldName(nested, k)

\* the line records a file with a reserved filename
NamesReserved(line) ==
    LET filepath == LinePath(line) IN filepath # <<>> /\ ReservedName(Last(filepath))

\* C12: whatever calls were made, no line of the Main Manifest names a file
\* whose filename is a canonical manifest name or a rotated variant of one.
C12_NoReservedNameRecorded ==
    MainPath \in DOMAIN mf =>
        \A i \in 2..Len(mf[MainPath]) : ~NamesReserved(mf[MainPath][i])

\* the path generate_checksums writes for the regular file at the physical path q
WrittenPath(q) ==
    concat_filepaths(
        make_relative_path(WalkRoot(folder_arg, DropLast(q)), basename(folder_arg)),
        <<Last(q)>>)

\* the checksums of the lines of a Main Manifest that record the path
ChecksumsFor(lines, filepath) ==
    {extract_from_md5line(lines[i], "custom").checksum :
        i \in {j \in 2..Len(lines) : LinePath(lines[j]) = filepath}}

\* the paths recorded by the Main Manifest, none when there is no Main Manifest
RecordedNow == IF MainPath \in DOMAIN mf THEN RecordedPaths(mf[MainPath]) ELSE {}

\* the entries of the Nested Manifest in the directory of q, none without one
NestedListing(q) ==
    IF DropLast(q) \o <<nested_checksum_filename>> \in DOMAIN mf
    THEN extract_lines(mf[DropLast(q) \o <<nested_checksum_filename>>], "custom_nested")
    ELSE NoExtract(None)

\* the entries of the unsorted source of the call in progress
UnsortedListing ==
    IF cur.args.unsorted.given
    THEN extract_from_md5file(cur.args.unsorted.lines, cur.args.unsorted.format)
    ELSE NoExtract(None)

\* the checksums the source lists for the filename
Candidates(listing, name) ==
    {listing.checksums[i] :
        i \in {j \in 1..Len(listing.filepaths) : basename(listing.filepaths[j]) = name}}

\* how often the source lists the filename
Listed(listing, name) == NameCount(Basenames(listing.filepaths), name)

\* the checksum the priority rule gives the file: the Nested Manifest's, else the
\* unique partition's, else the fresh MD5 if the duplicate partition holds it
\* (nothing if not), else the fresh MD5
ByPriority(q) ==
    LET name == <<Last(q)>>
    IN  IF Listed(NestedListing(q), name) > 0
        THEN {NestedListing(q).checksums[
                  index_if_possible(NestedListing(q).filepaths, name)]}
        ELSE IF Listed(UnsortedListing, name) = 1 THEN Candidates(UnsortedListing, name)
        ELSE IF Listed(UnsortedListing, name) > 1
        THEN {<<files[q]>>} \cap Candidates(UnsortedListing, name)
        ELSE {<<files[q]>>}

\* the regular files the call in progress has to record: not ignored, and their
\* path not recorded yet
ToRecord ==
    {q \in Present : /\ ~InSeq(<<Last(q)>>, cur.args.files_to_ignore)
                     /\ WrittenPath(q) \notin RecordedNow}

\* C13: for a file that is not ignored, not reserved and not recorded yet,
\* generate_checksums writes the checksum of its filename in the Nested Manifest
\* of its directory if there is one; otherwise the one in the unique partition of
\* the unsorted source, whatever the file's real MD5; otherwise the duplicate
\* partition decides; otherwise the file's fresh MD5.
C13_ChecksumPriority ==
    [][(GenerateReturns /\ last'.err = None) =>
          \A q \in ToRecord :
              ChecksumsFor(mf'[MainPath], WrittenPath(q)) = ByPriority(q)]_vars

\* the Nested Manifest lists g with c2, the unsorted source lists g once with C2,
\* the content of g has changed to c1: the line written for g holds c2
C13_Witness ==
    /\ last.op = "generate" /\ last.err = None
    /\ ~last.args.updating_only
    /\ last.args.unsorted.given /\ last.args.unsorted.format = "teracopy"
    /\ files[<<"g">>] = "c1"
    /\ <<nested_checksum_filename>> \in DOMAIN mf
    /\ MainPath \in DOMAIN mf
    /\ ChecksumsFor(mf[MainPath], WrittenPath(<<"g">>)) = {<<"c2">>}

\* the regular files the call in progress has to record whose filename is in the
\* duplicate partition of the unsorted source and not in a Nested Manifest
ToVerify ==
    {q \in ToRecord : /\ Listed(NestedListing(q), <<Last(q)>>) = 0
                      /\ Listed(UnsortedListing, <<Last(q)>>) > 1}

\* the entry of the failed-checksum diagnostics for the file
FailedEntry(q) ==
    <<<<Last(q)>>,
      make_relative_path(WalkRoot(folder_arg, DropLast(q)), basename(folder_arg))>>

\* C14: a file whose name is in the duplicate partition of the unsorted source
\* gets a line with its fresh MD5 exactly when that MD5 is one of the checksums
\* listed for the name; otherwise it gets no line in this run and is reported
\* as failed, and the call still returns and writes the lines of the other files.
C14_DuplicateCheck ==
    [][(GenerateReturns /\ cur.args.unsorted.given) =>
          /\ ToVerify # {} => last'.err = None
          /\ \A q \in ToVerify :
                IF <<files[q]>> \in Candidates(UnsortedListing, <<Last(q)>>)
                THEN /\ ChecksumsFor(mf'[MainPath], WrittenPath(q)) = {<<files[q]>>}
                     /\ ~InSeq(FailedEntry(q), last'.failed)
                ELSE /\ ChecksumsFor(mf'[MainPath], WrittenPath(q)) = {}
                     /\ InSeq(FailedEntry(q), last'.failed)
          /\ ToVerify # {} =>
                \A q \in ToRecord \ ToVerify :
                    /\ ChecksumsFor(mf'[MainPath], WrittenPath(q)) # {}
                    /\ ~InSeq(FailedEntry(q), last'.failed)]_vars

\* the unsorted source lists f twice with c2: tf/f, whose content is c2, got its
\* line, tf/a/f, whose content is c1, is reported as failed and has no line, and
\* the line of g is written
C14_Witness ==
    /\ last.op = "generate" /\ last.err = None
    /\ last.args.unsorted.given /\ last.args.unsorted.format = "md5"
    /\ files[<<"f">>] = "c2" /\ files[<<"a", "f">>] = "c1"
    /\ MainPath \in DOMAIN mf
    /\ ChecksumsFor(mf[MainPath], WrittenPath(<<"f">>)) = {<<"c2">>}
    /\ ChecksumsFor(mf[MainPath], WrittenPath(<<"a", "f">>)) = {}
    /\ ChecksumsFor(mf[MainPath], WrittenPath(<<"g">>)) = {<<"c2">>}
    /\ last.failed = <<FailedEntry(<<"a", "f">>)>>

\* the step is a call nest_checksums(root_folder, updating_only) from start to end
NestReturns(updating_only) ==
    /\ pc = "idle" /\ pc' = "idle" /\ nops' = nops + 1
    /\ last'.op = "nest" /\ last'.args.updating_only = updating_only

\* the Nested Manifests of a tree
NestedManifests(m) == {p \in DOMAIN m : Last(p) = nested_checksum_filename}

\* the entries of the Main Manifest before the step
MainEntries == extract_from_md5file(mf[MainPath], "custom")

\* the directory an entry of the Main Manifest is in
EntryDir(filepath) == Phys(concat_filepaths(folder_arg, dirname(filepath)))

\* the short-form lines of the entries of the directory, in Main Manifest order
ShortLinesIn(ph) ==
    LET e   == MainEntries
        idx == SelectSeq([i \in 1..Len(e.filepaths) |-> i],
                         LAMBDA i : EntryDir(e.filepaths[i]) = ph)
    IN  [k \in 1..Len(idx) |->
            get_short_custom_md5line_string(e.filepaths[idx[k]], e.checksums[idx[k]])]

\* C16: nest_checksums(root, False) on a tree without Nested Manifests gives
\* every directory holding an entry of the Main Manifest a Nested Manifest made
\* of the nested header and the short-form lines of its entries, in Main
\* Manifest order, and gives no other directory a Nested Manifest.
C16_NestCreates ==
    [][(/\ NestReturns(FALSE)
        /\ MainPath \in DOMAIN mf
        /\ NestedManifests(mf) = {}) =>
          /\ \A i \in 1..Len(MainEntries.filepaths) :
                LET d == EntryDir(MainEntries.filepaths[i])
                IN  /\ d \o <<nested_checksum_filename>> \in DOMAIN mf'
                    /\ mf'[d \o <<nested_checksum_filename>>]
                           = <<nested_checksum_header>> \o ShortLinesIn(d)
          /\ \A p \in NestedManifests(mf') :
                \E i \in 1..Len(MainEntries.filepaths) :
                    EntryDir(MainEntries.filepaths[i]) = DropLast(p)]_vars

\* the names of the rotated manifests
IsOldName(name) == \E k \in 0..MaxEntries : name \in {OldName(TRUE, k), OldName(FALSE, k)}

\* C17: nest_checksums(root, True) over existing Nested Manifests raises nothing,
\* creates no rotated file, leaves the Main Manifest alone, keeps the lines of
\* each Nested Manifest as a prefix and appends the short-form lines of the
\* directory's Main Manifest entries that it did not hold, in Main Manifest
\* order; a second run right after it changes no file.
C17_NestUpdates ==
    /\ pc \in {"once", "twice"} =>
          /\ pout.err = None
          /\ \A p \in DOMAIN mf : ~IsOldName(Last(p))
          /\ mf[MainPath] = pin[MainPath]
          /\ \A p \in NestedManifests(pin) :
                mf[p] = pin[p] \o NotAmong(ShortLinesIn(DropLast(p)), pin[p])
    /\ pc = "twice" => mf = last.before

\* the Nested Manifest of tf held f with c1 and g; f was recorded anew with c2
\* and g left the Main Manifest: both old lines stay and the new one follows
C17_Witness ==
    /\ pc = "twice"
    /\ pin[MainPath] = <<main_checksum_header, <<".", "/", "f", Arrow[1], "c2">>>>
    /\ NestedManifests(pin) = {<<nested_checksum_filename>>}
    /\ mf[<<nested_checksum_filename>>]
           = <<nested_checksum_header, <<"f", Arrow[1], "c1">>, <<"g", Arrow[1], "c2">>,
               <<"f", Arrow[1], "c2">>>>

\* the files named .nested_checksum.txt whose first line is the nested header
HeadedNested(m) ==
    {p \in NestedManifests(m) : m[p] # <<>> /\ Head(m[p]) = nested_checksum_header}

\* C18: delete_nested_checksum_files(root) removes the files named
\* .nested_checksum.txt, at any depth, whose first line is the nested header,
\* and leaves every other file as it was: a file of that name with another
\* first line, rotated Nested Manifests, Main Manifests and the user's files.
C18_DeleteNested ==
    pc = "returned" =>
        /\ pout.err = None
        /\ DOMAIN mf = DOMAIN pin \ HeadedNested(pin)
        /\ \A p \in DOMAIN mf : mf[p] = pin[p]
        /\ files = InitFiles

\* tf lost its Nested Manifest and kept the rotated one and the Main Manifest;
\* tf/a keeps the file of that name that starts with the main header
C18_Witness ==
    /\ pc = "returned"
    /\ DOMAIN pin = {<<nested_checksum_filename>>, <<OldName(TRUE, 0)>>, MainPath,
                     <<"a", nested_checksum_filename>>}
    /\ Len(pin[<<nested_checksum_filename>>]) = 2
    /\ pin[<<"a", nested_checksum_filename>>]
           = <<main_checksum_header, <<".", "/", "f", Arrow[1], "c1">>>>
    /\ DOMAIN mf = {<<OldName(TRUE, 0)>>, MainPath, <<"a", nested_checksum_filename>>}

\* the first line of a file, empty for an empty file
FirstLine(lines) == IF lines = <<>> THEN <<>> ELSE Head(lines)

KindHeader(nested) == IF nested THEN nested_checksum_header ELSE main_checksum_header

\* C19: when the canonical manifest file of the folder exists and its first line
\* is not the header of the requested kind, get_checksum_save_location raises
\* for both values of updating_only and leaves every file as it was; on a file
\* whose first line is not the header of the format, extract_from_md5file raises
\* for the formats custom and custom_nested.
C19_HeaderMismatchRaises ==
    pc = "returned" =>
        /\ (/\ pout.op = "locate"
            /\ <<CanonName(pout.nested)>> \in DOMAIN pin
            /\ FirstLine(pin[<<CanonName(pout.nested)>>]) # KindHeader(pout.nested))
              => (pout.r.err = "ValueError" /\ mf = pin)
        /\ (/\ pout.op = "extract"
            /\ <<CanonName(pout.nested)>> \in DOMAIN pin
            /\ FirstLine(pin[<<CanonName(pout.nested)>>])
                   # KindHeader(pout.format_type = "custom_nested"))
              => (pout.r.err = "ValueError" /\ mf = pin)

\* the file named .main_checksum.txt starts with the nested header; a call
\* that would rotate it raises and the file keeps its name
C19_Witness ==
    /\ pc = "returned"
    /\ pout.op = "locate" /\ ~pout.updating_only /\ ~pout.nested
    /\ MainPath \in DOMAIN pin
    /\ FirstLine(pin[MainPath]) = nested_checksum_header
    /\ pout.r.err = "ValueError"
    /\ mf = pin

\* the step is a whole call of the operation: it starts and ends idle
CallReturns(op) == pc = "idle" /\ pc' = "idle" /\ nops' = nops + 1 /\ last'.op = op

\* the step starts remove_missing_checksums
RemoveStarts ==
    /\ pc = "idle" /\ nops' = nops + 1
    /\ (pc' = "remove" \/ (pc' = "idle" /\ last'.op = "remove"))

\* with no Main Manifest, verify_checksums in main mode classifies nothing
VerifyWithoutMain ==
    (CallReturns("verify") /\ ~last'.args.use_nested_checksums) =>
        /\ last'.err = None
        /\ last'.passed = <<>> /\ last'.failed = <<>> /\ last'.new_files = <<>>
        /\ mf' = mf

\* with no Main Manifest, remove_missing_checksums returns 0
RemoveWithoutMain ==
    RemoveStarts => (pc' = "idle" /\ last'.err = None /\ last'.removed = 0 /\ mf' = mf)

\* with no Main Manifest, nest_checksums does nothing
NestWithoutMain == CallReturns("nest") => (last'.err = None /\ mf' = mf)

\* C20: with no Main Manifest in the folder, verify_checksums in main mode,
\* remove_missing_checksums and nest_checksums raise nothing and create, rename
\* and modify no file; verify classifies nothing and remove returns 0.
C20_AbsentManifestNoAbort ==
    [][MainPath \notin DOMAIN mf =>
          (VerifyWithoutMain /\ RemoveWithoutMain /\ NestWithoutMain)]_vars

\* C21: after a generate_checksums run was killed while writing a manifest it
\* had created, at any number of lines written, generate_checksums(folder, True)
\* on the unchanged tree raises nothing and leaves the manifest content the
\* killed run would have left.
C21_ResumeAfterKill ==
    pc = "resumed" => (pout.err = None /\ mf[MainPath] = pin.full)

\* the same, for runs killed after the header line was written
C21_ResumeAfterHeader ==
    (pc = "resumed" /\ pin.written >= 1) => (pout.err = None /\ mf[MainPath] = pin.full)

\* the name is a version of the manifest of the kind: canonical or rotated
VersionName(nested, name) ==
    \/ name = CanonName(nested)
    \/ \E k \in 0..Cardinality(DOMAIN mf) : name = OldName(nested, k)

\* C22: in every state, also in the middle of generate_checksums, nest_checksums
\* and remove_checksums, a directory that holds a version of a manifest of a
\* kind (canonical or rotated) holds the canonical file of that kind, the one
\* that is read.
C22_CanonicalAlwaysPresent ==
    \A nested \in BOOLEAN : \A p \in DOMAIN mf :
        VersionName(nested, Last(p)) =>
            DropLast(p) \o <<CanonName(nested)>> \in DOMAIN mf

\* C23: for the formats md5, custom and teracopy, extract_filepath and
\* extract_checksum of the full-form line of a path starting with "./" and a
\* checksum return that path and that checksum, also when the path holds the
\* text of the format's separator.
C23_LineRoundTrip ==
    pc = "returned" =>
        (pout.filepath = pin.filepath /\ pout.checksum = pin.checksum)

\* the path is in Unicode normalization form C
InNfc(s) == \A i \in DOMAIN s : s[i] # "e+acute"

\* C23, amended: the same for the paths that are in normalization form C
C23_LineRoundTripNfc ==
    (pc = "returned" /\ InNfc(pin.filepath)) =>
        (pout.filepath = pin.filepath /\ pout.checksum = pin.checksum)

\* a path that holds " -> " twice came back from a custom line
C23_Witness ==
    /\ pc = "returned"
    /\ pin.format_type = "custom"
    /\ pin.filepath = <<".", "/", " -> ", "f", " -> ">>
    /\ cur.line = <<".", "/", " -> ", "f", " -> ", " -> ", "c1">>
    /\ pout.filepath = pin.filepath
    /\ pout.checksum = <<"c1">>

\* the line has the structure of the format: 'checksum ./path' for md5,
\* 'checksum *path' for teracopy, 'path -> checksum' for custom and custom_nested
HasStructure(line, format_type) ==
    \E h \in HexTokens : \E n \in 1..Len(line) :
        CASE format_type = "md5" ->
                line = <<h, " ", ".", "/">> \o SubSeq(line, Len(line) - n + 1, Len(line))
          [] format_type = "teracopy" ->
                line = <<h, " ", "*">> \o SubSeq(line, Len(line) - n + 1, Len(line))
          [] OTHER ->
                line = SubSeq(line, 1, n) \o <<" -> ", h>>

\* C24: on a line that does not have the structure of the format (no separator,
\* a blank line, no checksum in its place) extract_filepath and
\* extract_checksum both raise ValueError: no other exception, no value.
C24_MalformedLineRaisesValueError ==
    (pc = "returned" /\ ~HasStructure(pin.line, pin.format_type)) =>
        (pout.filepath = ValueErr /\ pout.checksum = ValueErr)

\* C28: on every line that validate_md5line of a format accepts,
\* extract_checksum returns 32 hexadecimal characters.
C28_AcceptedChecksumIsHex ==
    (pc = "returned" /\ pout.valid = Valid) =>
        (~IsErr(pout.checksum) /\ Len(pout.checksum) = 1
            /\ pout.checksum[1] \in HexTokens)

\* C25: generate_checksums leaves the same Main Manifest (and reports the same
\* failures) whether the unsorted source lists its pairs in the format md5,
\* custom or teracopy, and a custom file converted by
\* revert_md5file_to_teracopy_format parses to the pairs of the original, in
\* the same order.
C25_FormatIndependence ==
    pc = "returned" =>
        /\ pout.md5 = pout.custom
        /\ pout.teracopy = pout.custom
        /\ pout.custom.err = None
        /\ pout.original.err = None
        /\ pout.reverted = pout.original
        /\ pout.original.filepaths = [i \in DOMAIN pin |-> pin[i].filepath]
        /\ pout.original.checksums = [i \in DOMAIN pin |-> pin[i].checksum]

\* the source lists g with C2 and f with c1, each once: both are recorded with
\* the checksum of the source, g in the source's upper case
C25_Witness ==
    /\ pc = "returned"
    /\ folder_arg = <<"tf">>
    /\ files = InitFiles
    /\ pin = << [filepath |-> <<".", "/", "x", "/", "g">>, checksum |-> <<"C2">>],
                [filepath |-> <<".", "/", "f">>, checksum |-> <<"c1">>] >>
    /\ pout.teracopy.m[MainPath]
           = <<main_checksum_header, <<".", "/", "f", " -> ", "c1">>,
               <<".", "/", "g", " -> ", "C2">>,
               <<".", "/", "a", "/", "f", " -> ", "c1">>>>

\* the paths of the Nested Manifests of a tree, current and rotated
NestedVersionPaths(m) ==
    {p \in DOMAIN m :
        \/ Last(p) = nested_checksum_filename
        \/ \E k \in 0..(MaxOps + 1) : Last(p) = OldName(TRUE, k)}

\* C26: no step of remove_missing_checksums creates, modifies, renames or
\* deletes a Nested Manifest, current or rotated, in any directory, whatever
\* save_orig and require_confirmation are.
C26_RemoveLeavesNested ==
    [][/\ NestedVersionPaths(mf') = NestedVersionPaths(mf)
       /\ \A p \in NestedVersionPaths(mf) : mf'[p] = mf[p]]_vars

\* a line was removed from the Main Manifest of a tree that holds a current
\* and a rotated Nested Manifest in tf and in tf/a
C26_Witness ==
    /\ pc = "idle"
    /\ last.op = "remove" /\ last.err = None /\ last.removed = 1
    /\ last.args.save_orig
    /\ Cardinality(NestedVersionPaths(mf)) = 4

\* the lines the step appends to the Main Manifest or writes into a new one
WrittenLines ==
    {mf'[MainPath][i] :
        i \in ((IF MainPath \in DOMAIN mf THEN Len(mf[MainPath]) ELSE 1) + 1)
                  ..Len(mf'[MainPath])}

\* C27: the directory part of every line generate_checksums writes is the path,
\* relative to folder_path, of a directory of the tree that holds the file
\* named by the line ("." for folder_path itself), however folder_path is spelt.
C27_DirectoryPartIsRelative ==
    [][(GenerateReturns /\ last'.err = None) =>
          \A line \in WrittenLines :
              \E d \in Dirs :
                  /\ dirname(LinePath(line)) = RelPath(d)
                  /\ d \o basename(LinePath(line)) \in Present \cup DOMAIN mf]_vars

(***************************************************************************)
(* generate_checksums with an unsorted source that may not parse: the      *)
(* source is read (checksums.py:93) after the save location was resolved   *)
(* (checksums.py:85).                                                      *)
(***************************************************************************)
SourceLineInputs ==
    { main_checksum_header,
      <<".", "/", "g", " -> ", "c2">>,
      <<"c2", " ", ".", "/", "g">>,
      <<"c2", " ", "*", "g">>,
      <<"g">> }

SourceInputs ==
    [given : {TRUE}, format : Formats \ {"custom_nested"},
     lines : UNION { [1..k -> SourceLineInputs] : k \in 0..MaxSourceLines }]

InitSource ==
    /\ folder_arg \in FolderPaths
    /\ files \in TreeInputs
    /\ mf \in {<<>>, Generated(folder_arg)}
    /\ pin \in SourceInputs
    /\ pout = Idle
    /\ pc = "call"
    /\ cur = Idle
    /\ last = Idle
    /\ nops = 0
    /\ nenv = 0

\* checksums.py:85-135: what line 85 returned and what the call returned
GenerateReturned(args, sl, r) ==
    /\ pout' = [op |-> "generate", args |-> args, located |-> sl.err = None,
                err |-> r.err]
    /\ mf' = r.m

\* generate_checksums(folder_path, updating_only, source, format)
GenerateWithSource(updating_only) ==
    /\ pc = "call"
    /\ GenerateReturned(
           [folder_path |-> folder_arg, updating_only |-> updating_only,
            unsorted |-> pin, files_to_ignore |-> <<>>],
           get_checksum_save_location(files, mf, folder_arg, updating_only, FALSE),
           generate_checksums(
               files, mf,
               [folder_path |-> folder_arg, updating_only |-> updating_only,
                unsorted |-> pin, files_to_ignore |-> <<>>]))
    /\ pc' = "returned"
    /\ UNCHANGED <<folder_arg, files, cur, last, nops, nenv, pin>>

NextSource == \E updating_only \in BOOLEAN : GenerateWithSource(updating_only)

SpecSource == InitSource /\ [][NextSource]_vars

\* the entries of a manifest file, none when it does not parse
EntriesOf(lines, format_type) ==
    IF extract_from_md5file(lines, format_type).err = None
    THEN extract_from_md5file(lines, format_type)
    ELSE NoExtract(None)

\* two lines of the Main Manifest record the same path
MainRepeatsPath(m) ==
    /\ MainPath \in DOMAIN m
    /\ \E i, j \in 1..Len(EntriesOf(m[MainPath], "custom").filepaths) :
          /\ i # j
          /\ EntriesOf(m[MainPath], "custom").filepaths[i]
                 = EntriesOf(m[MainPath], "custom").filepaths[j]

\* two lines of a Nested Manifest give the same filename different checksums
NestedContradicts(m) ==
    \E p \in {x \in DOMAIN m : Last(x) = nested_checksum_filename} :
        \E i, j \in 1..Len(EntriesOf(m[p], "custom_nested").filepaths) :
            /\ EntriesOf(m[p], "custom_nested").filepaths[i]
                   = EntriesOf(m[p], "custom_nested").filepaths[j]
            /\ EntriesOf(m[p], "custom_nested").checksums[i]
                   # EntriesOf(m[p], "custom_nested").checksums[j]

\* C29: after any sequence of generate_checksums, nest_checksums and
\* remove_missing_checksums calls and changes to the files, the current Main
\* Manifest has no two lines with the same path and no current Nested Manifest
\* has two lines with the same filename and different checksums.
C29_NoContradictingLines ==
    pc = "idle" => (~MainRepeatsPath(mf) /\ ~NestedContradicts(mf))

\* a generate_checksums(folder_path, False, source, format) call ends with an
\* exception after line 85 gave it a save location
GenerateAborts ==
    /\ pc = "call"
    /\ pc' = "returned"
    /\ ~pout'.args.updating_only
    /\ pout'.located
    /\ pout'.err # None

\* C30: when generate_checksums(updating_only=False) aborts with an error after
\* it has resolved its save location, the Main Manifest that was current before
\* the call is still at the canonical path with unchanged content.
C30_AbortKeepsMainManifest ==
    [][(GenerateAborts /\ MainPath \in DOMAIN mf) =>
          (MainPath \in DOMAIN mf' /\ mf'[MainPath] = mf[MainPath])]_vars

====
